---------------------------- MODULE Spec2Model ----------------------------
(***************************************************************************)
(* A model of tupdate, the client-side updater (src/src/main.rs,           *)
(* src/src/update_finder.rs, src/src/patience.rs).                         *)
(*                                                                         *)
(* Strings and file bodies are sequences of bytes (0..255), local paths    *)
(* are sequences of components (the way std::path::Path compares, orders   *)
(* and takes parents), u64/u32 fields are kept as their big-endian digits  *)
(* so that no width is lost.                                               *)
(*                                                                         *)
(*   SpecCat : the catalog decoder (Cat::try_parse and the body checks of  *)
(*             determine_tasks) applied to encoded, truncated and damaged  *)
(*             catalogs.                                                   *)
(*   Spec    : one run of real_main against a server and a filesystem:     *)
(*             index, catalogs, differ, deletion planning, downloads,      *)
(*             deletions.                                                  *)
(*   SpecPatience : one Patience value asked again and again while the     *)
(*             clock moves.                                                *)
(*   SpecDiffer : the workers of find_cat_statuses and their shared        *)
(*             counter.                                                    *)
(*   SpecSense : the sense predicate on anchors, globs and filesystems.    *)
(*   SpecRerun : the updater run again on the filesystem a run has left,   *)
(*             against a server of fixed content.                          *)
(***************************************************************************)
EXTENDS Integers, Sequences, FiniteSets, TLC

VARIABLES
    overflow_checks,  \* build setting: usize arithmetic panics (debug) or wraps (release)
    c_entries,        \* SpecCat: the entry list that is encoded
    c_level,          \* SpecCat: "entries" | "payload" | "body" | "parsed" | "decoded"
    c_bytes,          \* SpecCat: the byte string under work
    c_whole,          \* SpecCat: c_bytes is an unmodified encoding of c_entries
    c_result,         \* SpecCat: result of the decoder, or NoResult
    pc,               \* where real_main stands
    outcome,          \* "running", the ExitCode real_main returned, or "panic"
    fs,               \* the local filesystem
    dir_order,        \* the order in which the system lists a directory
    script,           \* the statements of the index still to execute
    uf,               \* the UpdateFinder
    all_deletions,    \* the DeletionList
    all_cats,         \* the CatalogEntry list
    loop_n,           \* index of the running loop (catalogs, downloads, deletions)
    dl,               \* the download under way: body still to come, bytes received
    gui,              \* the do_error / do_message calls of the core, in order
    gets,             \* the URLs requested, in order
    joined,           \* history: relative path texts joined to a base directory
    examined,         \* history: paths the differ looked at
    written,          \* history: paths created or written
    deleted,          \* history: the nodes removed, by the path from the root
    verified,         \* history: entries downloaded and verified
    bailed,           \* history: the index called bail_out()
    cat_invalid,      \* history: a catalog with a whole header failed validation
    dl_bad,           \* history: the entry whose download ended with the wrong digest or
                      \* length, and the number of requests made until then
    trimmed,          \* history: trim_deletions has run
    phases,           \* history: the phases the run has been in, in order
    install_calls,    \* history: the install calls that returned without error
    cat_bodies,       \* history: the catalog bodies accepted, in order
    io_failed,        \* history: the entry at which the differ met an I/O error, or 0
    fs_seen,          \* history: the filesystem the differ looked at
    fetched,          \* history: the entries a GET was issued for, in order
    server,           \* what the server holds, as far as it is fixed: the index, the
                      \* catalog at a URL, the file at a URL
    earlier,          \* the runs before this one on the same filesystem: how each
                      \* ended or where it was stopped, its entries, what it left
    clock,            \* SpecPatience: what Instant::now() returns, in milliseconds
    last_time,        \* SpecPatience: the field of the Patience value, <<>> for None
    calls,            \* SpecPatience: history: the calls of have_been_patient, in order
    num_cats,         \* SpecDiffer: the length of the CatalogEntry list
    todo,             \* SpecDiffer: the entries no worker has taken yet
    ctr,              \* SpecDiffer: the shared counter n of find_cat_statuses
    wk,               \* SpecDiffer: each worker's position, progn and testn
    updates,          \* SpecDiffer: the set_progress calls of the workers, in order
    cat_list,         \* SpecDiffer: the CatalogEntry list the workers share
    disk,             \* SpecDiffer: the filesystem the workers read
    faulty,           \* SpecDiffer: the entry whose file cannot be read, or 0
    pass,             \* SpecDiffer: 1 in the first differ run, 2 in a repeated one
    probe,            \* SpecSense: the anchor and the glob sense is called with
    sensed            \* SpecSense: what sense returned, or "none"

catvars == <<c_entries, c_level, c_bytes, c_whole, c_result>>
runvars == <<pc, outcome, fs, dir_order, script, uf, all_deletions, all_cats, loop_n, dl,
             gui, gets, joined, examined, written, deleted, verified, bailed,
             cat_invalid, dl_bad, trimmed, phases, install_calls, cat_bodies, io_failed,
             fs_seen, fetched, server, earlier>>
patvars == <<clock, last_time, calls>>
records == <<install_calls, cat_bodies, io_failed, fs_seen, fetched>>
world == <<server, earlier>>
wrkvars == <<num_cats, todo, ctr, wk, updates, cat_list, disk, faulty, pass>>
sensevars == <<probe, sensed>>
vars == <<overflow_checks, catvars, runvars, patvars, wrkvars, sensevars>>

-----------------------------------------------------------------------------
(* Bytes the code names.                                                   *)
NL == 10
Dot == 46
Slash == 47
Backslash == 92
Colon == 58
LBracket == 91
RBracket == 93
ZlibHeader == 120

(* Bounds of the model.                                                    *)
MaxEntries == 2
MaxCut == 46

Byte == 0..255

Take(s, n) == SubSeq(s, 1, n)
Drop(s, n) == SubSeq(s, n + 1, Len(s))

\* bytes[a .. b] of Rust (0-based, end exclusive); the caller checks b <= len
Slice(s, a, b) == SubSeq(s, a + 1, b)

StartsWith(s, p) == Len(s) >= Len(p) /\ Take(s, Len(p)) = p

\* str::find(pat).is_some()
Contains(s, p) == \E i \in 1..(Len(s) - Len(p) + 1) : SubSeq(s, i, i + Len(p) - 1) = p

\* iter().position(|x| *x == b): 0-based index of the first b, or -1 for None
Position(s, b) ==
    IF \E i \in 1..Len(s) : s[i] = b
    THEN (CHOOSE i \in 1..Len(s) : s[i] = b /\ \A j \in 1..(i - 1) : s[j] # b) - 1
    ELSE -1

\* sums over s[lo..hi], halving the range
RECURSIVE SumBytes(_, _, _)
SumBytes(s, lo, hi) ==
    IF lo > hi THEN 0
    ELSE IF lo = hi THEN s[lo]
    ELSE LET mid == (lo + hi) \div 2 IN
         (SumBytes(s, lo, mid) + SumBytes(s, mid + 1, hi)) % 256

RECURSIVE WeightedSum(_, _, _)
WeightedSum(s, lo, hi) ==
    IF lo > hi THEN 0
    ELSE IF lo = hi THEN (((lo % 255) + 1) * s[lo]) % 256
    ELSE LET mid == (lo + hi) \div 2 IN
         (WeightedSum(s, lo, mid) + WeightedSum(s, mid + 1, hi)) % 256

\* n as k big-endian base-256 digits (u64::to_be_bytes for k = 8); n < 2^24 in the model
ToBe(n, k) ==
    [i \in 1..k |->
        IF i = k THEN n % 256
        ELSE IF i = k - 1 THEN (n \div 256) % 256
        ELSE IF i = k - 2 THEN (n \div 65536) % 256
        ELSE 0]

\* u16::from_be_bytes
U16FromBe(b) == b[1] * 256 + b[2]

\* a <= b for two big-endian numerals of one length
RECURSIVE BeLeq(_, _)
BeLeq(a, b) ==
    IF a = <<>> THEN TRUE
    ELSE IF a[1] # b[1] THEN a[1] < b[1]
    ELSE BeLeq(Tail(a), Tail(b))

-----------------------------------------------------------------------------
(* External collaborators, idealised.                                      *)

\* lsx::sha256: a 32-byte digest, a function of the input alone, without
\* collisions among inputs of up to 29 bytes (length, two sums, the bytes).
Sha256(s) ==
    [i \in 1..32 |->
        IF i = 1 THEN Len(s) % 256
        ELSE IF i = 2 THEN SumBytes(s, 1, Len(s))
        ELSE IF i = 3 THEN WeightedSum(s, 1, Len(s))
        ELSE IF i - 3 <= Len(s) THEN s[i - 3] ELSE 0]

\* flate2::read::ZlibDecoder::read_to_end: a stream is its header byte followed
\* by the stored data; anything else is a decompression error.
Deflate(data) == <<ZlibHeader>> \o data
Inflate(z) ==
    IF Len(z) >= 1 /\ z[1] = ZlibHeader
    THEN [ok |-> TRUE, data |-> Tail(z)]
    ELSE [ok |-> FALSE, data |-> <<>>]

\* std::str::from_utf8: the model's strings are ASCII plus bytes >= 128 that
\* never start a well-formed sequence on their own.
IsUtf8(s) == \A i \in 1..Len(s) : s[i] < 128

IsAlpha(b) == (b >= 65 /\ b <= 90) \/ (b >= 97 /\ b <= 122)

\* Url::join(rel).is_ok(): a reference that starts with a scheme and "//" is
\* parsed as an absolute URL, and a host that opens "[" without closing "]"
\* is an invalid IPv6 address; every other reference of the model joins.
UrlJoinOk(rel) ==
    ~ \E i \in 1..Len(rel) :
        /\ \A j \in 1..i : IsAlpha(rel[j])
        /\ StartsWith(Drop(rel, i), <<Colon, Slash, Slash, LBracket>>)
        /\ ~ \E j \in (i + 1)..Len(rel) : rel[j] = RBracket

\* a URL is kept as the base it was joined to and the reference joined
UrlJoin(base, rel) == [base |-> base, rel |-> rel]

-----------------------------------------------------------------------------
(* Paths.                                                                  *)

\* the components of a relative path text, as Path::components() yields them
\* on unix: split at "/", empty and "." components dropped
RECURSIVE SplitPath(_, _)
SplitPath(s, cur) ==
    IF s = <<>>
    THEN IF cur = <<>> \/ cur = <<Dot>> THEN <<>> ELSE <<cur>>
    ELSE IF s[1] = Slash
         THEN (IF cur = <<>> \/ cur = <<Dot>> THEN <<>> ELSE <<cur>>) \o SplitPath(Tail(s), <<>>)
         ELSE SplitPath(Tail(s), Append(cur, s[1]))

\* Path::join: an absolute argument replaces the base
PathJoin(base, rel) ==
    IF StartsWith(rel, <<Slash>>) THEN SplitPath(rel, <<>>) ELSE base \o SplitPath(rel, <<>>)

is_fishy_path_NoInner(target) ==
    \/ StartsWith(target, <<Dot>>)
    \/ StartsWith(target, <<Slash>>)
    \/ StartsWith(target, <<Backslash>>)

is_fishy_path(target) ==
    \/ StartsWith(target, <<Dot>>)
    \/ StartsWith(target, <<Slash>>)
    \/ StartsWith(target, <<Backslash>>)
    \/ Contains(target, <<Slash, Dot>>)
    \/ Contains(target, <<Backslash, Dot>>)

-----------------------------------------------------------------------------
(* Cat::try_parse.                                                         *)

ParseErr == [tag |-> "err"]
ParsePanic == [tag |-> "panic"]

\* the bound check of line 65, newline > bytes.len() - 42, in usize: with
\* fewer than 42 bytes the subtraction overflows, which panics in a build
\* with overflow checks and wraps to a value above every index otherwise
TooShort(bytes, newline, oc) ==
    IF Len(bytes) < 42
    THEN IF oc THEN "panic" ELSE "go"
    ELSE IF newline > Len(bytes) - 42 THEN "err" ELSE "go"

try_parse_NoSkipExt(bytes, base_url, base_path, oc) ==
    LET newline == Position(bytes, NL) IN
    IF newline = -1 THEN ParseErr
    ELSE IF newline = 0 THEN ParseErr
    ELSE IF TooShort(bytes, newline, oc) = "panic" THEN ParsePanic
    ELSE IF TooShort(bytes, newline, oc) = "err" THEN ParseErr
    ELSE LET file_path == Slice(bytes, 0, newline) IN
    IF ~IsUtf8(file_path) THEN ParseErr
    ELSE IF newline + 43 > Len(bytes) THEN ParsePanic
    ELSE LET xt == U16FromBe(Slice(bytes, newline + 41, newline + 43))
             next == newline + 43
         IN
    IF next + xt > Len(bytes) THEN ParseErr
    ELSE IF is_fishy_path(file_path) THEN ParseErr
    ELSE IF ~UrlJoinOk(file_path) THEN ParseErr
    ELSE [tag |-> "ok",
          cat |-> [src_url |-> UrlJoin(base_url, file_path),
                   dst_path |-> PathJoin(base_path, file_path),
                   checksum |-> Slice(bytes, newline + 1, newline + 33),
                   size |-> Slice(bytes, newline + 33, newline + 41),
                   needs_download |-> FALSE],
          rem |-> Drop(bytes, next)]

try_parse(bytes, base_url, base_path, oc) ==
    LET newline == Position(bytes, NL) IN
    IF newline = -1 THEN ParseErr
    ELSE IF newline = 0 THEN ParseErr
    ELSE IF TooShort(bytes, newline, oc) = "panic" THEN ParsePanic
    ELSE IF TooShort(bytes, newline, oc) = "err" THEN ParseErr
    ELSE LET file_path == Slice(bytes, 0, newline) IN
    IF ~IsUtf8(file_path) THEN ParseErr
    \* bytes[newline+1 .. newline+33], [newline+33 .. newline+41] and
    \* [newline+41 .. newline+43]: a slice past the end panics
    ELSE IF newline + 33 > Len(bytes) THEN ParsePanic
    ELSE IF newline + 41 > Len(bytes) THEN ParsePanic
    ELSE IF newline + 43 > Len(bytes) THEN ParsePanic
    ELSE LET xt == U16FromBe(Slice(bytes, newline + 41, newline + 43))
             next == newline + 43 + xt
         IN
    IF next > Len(bytes) THEN ParseErr
    ELSE IF is_fishy_path(file_path) THEN ParseErr
    ELSE IF ~UrlJoinOk(file_path) THEN ParseErr
    ELSE [tag |-> "ok",
          cat |-> [src_url |-> UrlJoin(base_url, file_path),
                   dst_path |-> PathJoin(base_path, file_path),
                   checksum |-> Slice(bytes, newline + 1, newline + 33),
                   size |-> Slice(bytes, newline + 33, newline + 41),
                   needs_download |-> FALSE],
          rem |-> Drop(bytes, next)]

\* the loop of determine_tasks, lines 234-248: entries until the payload is
\* used up; the first failure ends it
RECURSIVE ParseAll(_, _, _, _)
\* a loop that asks for an entry before it looks whether bytes are left
ParseAll_WantsEntry(bytes, base_url, base_path, oc) ==
    LET r == try_parse(bytes, base_url, base_path, oc) IN
    IF r.tag # "ok" THEN [tag |-> r.tag, cats |-> <<>>]
    ELSE [tag |-> "ok", cats |-> <<r.cat>> \o ParseAll(r.rem, base_url, base_path, oc).cats]

ParseAll(bytes, base_url, base_path, oc) ==
    IF Len(bytes) = 0 THEN [tag |-> "ok", cats |-> <<>>]
    ELSE LET r == try_parse(bytes, base_url, base_path, oc) IN
         IF r.tag # "ok" THEN [tag |-> r.tag, cats |-> <<>>]
         ELSE LET rest == ParseAll(r.rem, base_url, base_path, oc) IN
              IF rest.tag # "ok" THEN rest
              ELSE [tag |-> "ok", cats |-> <<r.cat>> \o rest.cats]

Magic == <<255, 84, 67, 97, 116>>

\* determine_tasks, lines 209-248, for one catalog response body: "ok" with
\* the entries, "err" with the title of the do_error issued, or "panic"
DecodeCatalog(body, caturl, basedir, oc) ==
    IF Len(body) = 0 THEN [tag |-> "err", title |-> "Missing catalog", cats |-> <<>>]
    \* &body[..5]
    ELSE IF Len(body) < 5 THEN [tag |-> "panic", title |-> "", cats |-> <<>>]
    ELSE IF Slice(body, 0, 5) # Magic
    THEN [tag |-> "err", title |-> "Invalid catalog", cats |-> <<>>]
    \* &body[5..37] and body[37..41]
    ELSE IF Len(body) < 37 THEN [tag |-> "panic", title |-> "", cats |-> <<>>]
    ELSE IF Len(body) < 41 THEN [tag |-> "panic", title |-> "", cats |-> <<>>]
    ELSE LET checksum == Slice(body, 5, 37)
             uncompressed_size == Slice(body, 37, 41)
             z == Inflate(Drop(body, 41))
         IN
    IF \/ ~z.ok
       \/ ToBe(Len(z.data), 4) # uncompressed_size
       \/ Sha256(z.data) # checksum
    THEN [tag |-> "err", title |-> "Invalid catalog", cats |-> <<>>]
    ELSE LET r == ParseAll(z.data, caturl, basedir, oc) IN
         IF r.tag = "ok" THEN [tag |-> "ok", title |-> "", cats |-> r.cats]
         ELSE IF r.tag = "err" THEN [tag |-> "err", title |-> "Invalid catalog", cats |-> <<>>]
         ELSE [tag |-> "panic", title |-> "", cats |-> <<>>]

-----------------------------------------------------------------------------
(* The catalog layout of the format: what a catalog builder writes.        *)

EncodeEntry(e) == e.path \o <<NL>> \o e.checksum \o e.size \o ToBe(Len(e.ext), 2) \o e.ext

RECURSIVE EncodePayload(_)
EncodePayload(es) == IF es = <<>> THEN <<>> ELSE EncodeEntry(es[1]) \o EncodePayload(Tail(es))

WrapCatalog(payload) ==
    Magic \o Sha256(payload) \o ToBe(Len(payload), 4) \o Deflate(payload)

EncodeCatalog(es) == WrapCatalog(EncodePayload(es))

-----------------------------------------------------------------------------
(* Texts of the model.                                                     *)
T_a == <<97>>                               \* "a"
T_b == <<98>>                               \* "b"
T_k == <<107>>                              \* "k"
T_h == <<104>>                              \* "h"
T_ka == <<107, Slash, 97>>                  \* "k/a"
T_kb == <<107, Slash, 98>>                  \* "k/b"
T_hidden == <<Dot, 97>>                     \* ".a"
T_up == <<Dot, Dot, Slash, 101>>            \* "../e"
T_inner == <<107, Slash, Dot, Dot, Slash, 101>>  \* "k/../e"
T_badhost == <<120, Colon, Slash, Slash, LBracket>>  \* "x://["
T_latin1 == <<200>>                         \* not UTF-8
T_hi == <<104, 105>>                        \* "hi"
T_hj == <<104, 106>>                        \* "hj"
T_nl == <<NL>>

Sevens(n) == [i \in 1..n |-> 7]

-----------------------------------------------------------------------------
(* The local filesystem: a function from the paths that exist to their     *)
(* nodes.  The root always exists.                                         *)

Root == <<>>
DirNode == [kind |-> "dir", data |-> <<>>]
FileNode(data) == [kind |-> "file", data |-> data]

IsPrefix(p, q) == Len(p) <= Len(q) /\ Take(q, Len(p)) = p

\* Path::parent of a path other than the root
Parent(p) == Take(p, Len(p) - 1)

\* The system resolves a ".." component to the directory above the one the
\* path has reached, which must be a directory; Path keeps the component (only
\* "." is dropped), so that two paths can name one node.
DotDot == <<Dot, Dot>>
HasDotDot(p) == \E i \in 1..Len(p) : p[i] = DotDot

\* a path that names nothing: no node has an empty component
Nowhere == <<<<>>>>

\* the node a path names, from the node cur on: every component but the last
\* must lead to a directory
RECURSIVE Locate(_, _, _)
Locate(fsys, p, cur) ==
    IF p = <<>> THEN cur
    ELSE IF ~(cur \in DOMAIN fsys /\ fsys[cur].kind = "dir") THEN Nowhere
    ELSE IF p[1] = DotDot
    THEN Locate(fsys, Tail(p), IF cur = Root THEN Root ELSE Parent(cur))
    ELSE Locate(fsys, Tail(p), Append(cur, p[1]))

Real(fsys, p) == IF HasDotDot(p) THEN Locate(fsys, p, Root) ELSE p

\* the node at a path that exists
At(fsys, p) == fsys[Real(fsys, p)]

Exists(fsys, p) == Real(fsys, p) \in DOMAIN fsys
IsDir(fsys, p) == Exists(fsys, p) /\ At(fsys, p).kind = "dir"
IsFile(fsys, p) == Exists(fsys, p) /\ At(fsys, p).kind = "file"

\* std::fs::create_dir_all: the missing directories of p, as far as they can
\* be made (a file in the way stops it; the caller ignores the error)
RECURSIVE create_dir_all(_, _)
create_dir_all(fsys, p) ==
    IF Exists(fsys, p) THEN fsys
    ELSE LET up == create_dir_all(fsys, Parent(p)) IN
         IF p[Len(p)] # DotDot /\ IsDir(up, Parent(p)) THEN (Real(up, p) :> DirNode) @@ up
         ELSE up

\* File::create succeeds where the parent is a directory and p is none
CanCreate(fsys, p) == p # Root /\ IsDir(fsys, Parent(p)) /\ ~IsDir(fsys, p)

\* a removal that leaves the file where it is
remove_file_Kept(fsys, p) == fsys

\* std::fs::remove_file, and std::fs::remove_dir_all with all below p
remove_file(fsys, p) == [q \in DOMAIN fsys \ {Real(fsys, p)} |-> fsys[q]]
remove_dir_all(fsys, p) ==
    [q \in {r \in DOMAIN fsys : ~IsPrefix(Real(fsys, p), r)} |-> fsys[q]]

\* Ord of OsStr and of Path: bytes, then components, in lexicographic order
RECURSIVE BytesLess(_, _)
BytesLess(a, b) ==
    IF b = <<>> THEN FALSE
    ELSE IF a = <<>> THEN TRUE
    ELSE IF a[1] # b[1] THEN a[1] < b[1]
    ELSE BytesLess(Tail(a), Tail(b))

RECURSIVE PathLess(_, _)
PathLess(p, q) ==
    IF q = <<>> THEN FALSE
    ELSE IF p = <<>> THEN TRUE
    ELSE IF p[1] # q[1] THEN BytesLess(p[1], q[1])
    ELSE PathLess(Tail(p), Tail(q))

-----------------------------------------------------------------------------
(* The glob engine (wax), for the globs of the model: components split at  *)
(* "/", "*" for any one component, "**" for any number of components.      *)

Star == 42
G_any == <<Star>>
G_tree == <<Star, Star>>

\* Glob::new(..).is_ok(): an unclosed character class is a syntax error
GlobValid(text) ==
    (\E i \in 1..Len(text) : text[i] = LBracket) => (\E i \in 1..Len(text) : text[i] = RBracket)

\* the text split at every "/", nothing dropped
RECURSIVE SplitRaw(_, _)
SplitRaw(s, cur) ==
    IF s = <<>> THEN <<cur>>
    ELSE IF s[1] = Slash THEN <<cur>> \o SplitRaw(Tail(s), <<>>)
    ELSE SplitRaw(Tail(s), Append(cur, s[1]))

\* Glob::has_root and Glob::has_semantic_literals
GlobHasRoot(text) == StartsWith(text, <<Slash>>)
GlobHasSemantic(text) ==
    LET parts == SplitRaw(text, <<>>) IN
    \E i \in 1..Len(parts) : parts[i] = <<Dot>> \/ parts[i] = <<Dot, Dot>>

RECURSIVE GlobMatch(_, _)
GlobMatch(parts, rel) ==
    IF parts = <<>> THEN rel = <<>>
    ELSE IF parts[1] = G_tree
    THEN GlobMatch(Tail(parts), rel) \/ (rel # <<>> /\ GlobMatch(parts, Tail(rel)))
    ELSE IF rel = <<>> THEN FALSE
    ELSE IF parts[1] = G_any THEN GlobMatch(Tail(parts), Tail(rel))
    ELSE parts[1] = rel[1] /\ GlobMatch(Tail(parts), Tail(rel))

\* the nodes at and below the node at, as paths from it
Below(fsys, at) == { Drop(q, Len(at)) : q \in { r \in DOMAIN fsys : IsPrefix(at, r) } }

\* the paths Glob::walk(anchor) yields: the anchor as it is written, joined
\* with what matches below it
Walk(fsys, anchor, text) ==
    { anchor \o rel : rel \in { r \in Below(fsys, Real(fsys, anchor)) :
                                    GlobMatch(SplitPath(text, <<>>), r) } }

\* the order in which the walk meets two paths: a directory before what is
\* below it, the entries of one directory in the order the system lists them
RECURSIVE WalkBefore(_, _, _)
WalkBefore(order, p, q) ==
    IF p = <<>> THEN q # <<>>
    ELSE IF q = <<>> THEN FALSE
    ELSE IF p[1] # q[1]
    THEN IF order = "asc" THEN BytesLess(p[1], q[1]) ELSE BytesLess(q[1], p[1])
    ELSE WalkBefore(order, Tail(p), Tail(q))

\* a set of paths as the list the walk yields
RECURSIVE WalkList(_, _)
WalkList(order, S) ==
    IF S = {} THEN <<>>
    ELSE LET first == CHOOSE p \in S : \A q \in S \ {p} : WalkBefore(order, p, q) IN
         <<first>> \o WalkList(order, S \ {first})

-----------------------------------------------------------------------------
(* The index interpreter (update_finder.rs).  A value of mlua::Error is    *)
(* its root cause under a number of CallbackError layers: each Rust        *)
(* callback that returns an error to Lua adds one.                         *)

LuaOk == <<>>
LuaError(root) == <<[root |-> root, layers |-> 0]>>
\* the error a Lua caller sees when a Rust callback returned e
Raised(e) == IF e = <<>> THEN <<>> ELSE <<[root |-> e[1].root, layers |-> e[1].layers + 1]>>

IndexUrl == "index"

NewUpdateFinder == [dirs |-> <<>>, basedir |-> <<>>, installs |-> <<>>, deletes |-> <<>>]

Done(finder, e) == [uf |-> finder, err |-> e]

\* an end of sense that is content with any match of the kind wanted
SenseFound_AnyMatch(fsys, found, wants_dir) ==
    IF \E i \in 1..Len(found) : IsDir(fsys, found[i]) = wants_dir THEN "true" ELSE "false"

\* the end of sense, lines 36-44: the first path the walk yields decides
SenseFound(fsys, found, wants_dir) ==
    IF found = <<>> THEN "false"
    ELSE IF IsDir(fsys, found[1]) # wants_dir THEN "false"
    ELSE "true"

\* sense, lines 28-44, for the glob without its trailing "/"
SenseGlob(fsys, order, anchor, glob, wants_dir) ==
    IF ~GlobValid(glob) THEN "err"
    ELSE IF GlobHasRoot(glob) \/ GlobHasSemantic(glob) THEN "err"
    ELSE SenseFound(fsys, WalkList(order, Walk(fsys, anchor, glob)), wants_dir)

\* sense(anchor, srcglob): "err", "true" or "false"
sense(fsys, order, anchor, srcglob) ==
    IF Len(srcglob) >= 1 /\ srcglob[Len(srcglob)] = Slash
    THEN SenseGlob(fsys, order, anchor, Take(srcglob, Len(srcglob) - 1), TRUE)
    ELSE SenseGlob(fsys, order, anchor, srcglob, FALSE)

IsAbsolute(text) == StartsWith(text, <<Slash>>)

\* the loop of check_detected_dir over the sense globs: whether a glob was in
\* error, and whether every glob matched
RECURSIVE SenseAll(_, _, _, _, _)
RECURSIVE SenseStep(_, _, _, _, _, _)
SenseStep(fsys, order, candidate, globs, ok, r) ==
    IF r = "err" THEN [err |-> TRUE, ok |-> FALSE]
    ELSE SenseAll(fsys, order, candidate, Tail(globs), ok /\ r = "true")

SenseAll(fsys, order, candidate, globs, ok) ==
    IF globs = <<>> THEN [err |-> FALSE, ok |-> ok]
    ELSE SenseStep(fsys, order, candidate, globs, ok, sense(fsys, order, candidate, globs[1]))

\* check_detected_dir after its loop, lines 106-112
Sensed(finder, var, path, r) ==
    IF r.err THEN [uf |-> finder, err |-> LuaError("runtime"), ok |-> FALSE]
    ELSE IF r.ok
    THEN [uf |-> [finder EXCEPT !.dirs = (var :> path) @@ @], err |-> LuaOk, ok |-> TRUE]
    ELSE [uf |-> finder, err |-> LuaOk, ok |-> FALSE]

\* Path::new(text): a path that does not start at the root keeps a first
\* component "." here, which no path made by PathJoin from the root has
CurDir == <<Dot>>
ToPath(text) ==
    IF StartsWith(text, <<Slash>>) THEN SplitPath(text, <<>>)
    ELSE <<CurDir>> \o SplitPath(text, <<>>)
\* Path::is_absolute
IsAbsolutePath(path) == path = <<>> \/ path[1] # CurDir

\* check_detected_dir without the test of lines 92-94
check_detected_dir_AnyPath(finder, fsys, order, var, candidate, silhouette) ==
    Sensed(finder, var, ToPath(candidate),
           SenseAll(fsys, order, ToPath(candidate), silhouette, TRUE))

\* check_detected_dir: the finder after the call, the error, and whether the
\* candidate was accepted
check_detected_dir(finder, fsys, order, var, candidate, silhouette) ==
    IF ~IsAbsolute(candidate)
    THEN [uf |-> finder, err |-> LuaError("runtime"), ok |-> FALSE]
    ELSE Sensed(finder, var, PathJoin(Root, candidate),
                SenseAll(fsys, order, PathJoin(Root, candidate), silhouette, TRUE))

\* an item of a candidate iterator: a path it yields, or a primitive it calls
Yield(text) == [yield |-> TRUE, text |-> text]
IterBailOut == [yield |-> FALSE, text |-> <<>>]

\* "if self.check_detected_dir(..)? { return Ok(()) }": r is the result of the
\* check, otherwise what detect_dir goes on to do
Checked(finder, r, otherwise) ==
    IF r.err # LuaOk THEN Done(finder, r.err)
    ELSE IF r.ok THEN Done(r.uf, LuaOk)
    ELSE otherwise

\* the resume loop of detect_dir, lines 128-141
RECURSIVE TryCandidates(_, _, _, _, _, _)
TryCandidates(finder, fsys, order, id, cands, silhouette) ==
    IF cands = <<>> THEN Done(finder, LuaOk)
    ELSE IF ~cands[1].yield
    \* bail_out() called inside the coroutine: cor.resume(())? hands on the
    \* error the coroutine died of, the callback error around BailOut
    THEN Done(finder, Raised(LuaError("bail")))
    ELSE Checked(finder,
                 check_detected_dir(finder, fsys, order, id, cands[1].text, silhouette),
                 TryCandidates(finder, fsys, order, id, Tail(cands), silhouette))

\* detect_dir that does not look at the environment
detect_dir_EnvIgnored(finder, fsys, order, id, env, cands, silhouette) ==
    IF id \in DOMAIN finder.dirs THEN Done(finder, LuaOk)
    ELSE TryCandidates(finder, fsys, order, id, cands, silhouette)

\* detect_dir without the test of lines 119-122
detect_dir_NoEarlyReturn(finder, fsys, order, id, env, cands, silhouette) ==
    IF env # <<>>
    THEN Checked(finder,
                 check_detected_dir(finder, fsys, order, id, env[1], silhouette),
                 TryCandidates(finder, fsys, order, id, cands, silhouette))
    ELSE TryCandidates(finder, fsys, order, id, cands, silhouette)

\* detect_dir; env is <<>> or <<value>>, what env::var_os(&id) returns
detect_dir(finder, fsys, order, id, env, cands, silhouette) ==
    IF id \in DOMAIN finder.dirs THEN Done(finder, LuaOk)
    ELSE IF env # <<>>
    THEN Checked(finder,
                 check_detected_dir(finder, fsys, order, id, env[1], silhouette),
                 TryCandidates(finder, fsys, order, id, cands, silhouette))
    ELSE TryCandidates(finder, fsys, order, id, cands, silhouette)

basedir(finder, target) ==
    IF target \notin DOMAIN finder.dirs THEN Done(finder, LuaError("runtime"))
    ELSE Done([finder EXCEPT !.basedir = <<finder.dirs[target]>>], LuaOk)

\* cd that pushes the target before it finds it fishy
cd_PushesFirst(finder, target) ==
    IF finder.basedir = <<>> THEN Done(finder, LuaError("runtime"))
    ELSE IF is_fishy_path(target)
    THEN Done([finder EXCEPT !.basedir = <<PathJoin(@[1], target)>>], LuaError("runtime"))
    ELSE Done([finder EXCEPT !.basedir = <<PathJoin(@[1], target)>>], LuaOk)

\* cd on a base directory that is the entry of the registry itself
cd_IntoRegistry(finder, target) ==
    IF is_fishy_path(target) THEN Done(finder, LuaError("runtime"))
    ELSE IF finder.basedir = <<>> THEN Done(finder, LuaError("runtime"))
    ELSE Done([finder EXCEPT
                  !.basedir = <<PathJoin(@[1], target)>>,
                  !.dirs = [id \in DOMAIN @ |->
                               IF @[id] = finder.basedir[1] THEN PathJoin(@[id], target)
                               ELSE @[id]]],
              LuaOk)

cd(finder, target) ==
    IF is_fishy_path(target) THEN Done(finder, LuaError("runtime"))
    ELSE IF finder.basedir = <<>> THEN Done(finder, LuaError("runtime"))
    ELSE Done([finder EXCEPT !.basedir = <<PathJoin(@[1], target)>>], LuaOk)

\* install that puts the new pair in front of the list
install_InFront(finder, target) ==
    IF ~UrlJoinOk(target) THEN Done(finder, LuaError("runtime"))
    ELSE IF finder.basedir = <<>> THEN Done(finder, LuaError("runtime"))
    ELSE Done([finder EXCEPT !.installs =
                    <<[base_dir |-> finder.basedir[1], url |-> UrlJoin(IndexUrl, target)]>> \o @],
              LuaOk)

install(finder, target) ==
    IF ~UrlJoinOk(target) THEN Done(finder, LuaError("runtime"))
    ELSE IF finder.basedir = <<>> THEN Done(finder, LuaError("runtime"))
    ELSE Done([finder EXCEPT !.installs =
                    Append(@, [base_dir |-> finder.basedir[1], url |-> UrlJoin(IndexUrl, target)])],
              LuaOk)

\* delete_unmatched that records the glob as it comes
delete_unmatched_Unchecked(finder, target) ==
    IF finder.basedir = <<>> THEN Done(finder, LuaError("runtime"))
    ELSE IF finder.basedir[1] \in DOMAIN finder.deletes
    THEN Done([finder EXCEPT !.deletes[finder.basedir[1]] = Append(@, target)], LuaOk)
    ELSE Done([finder EXCEPT !.deletes = (finder.basedir[1] :> <<target>>) @@ @], LuaOk)

delete_unmatched(finder, target) ==
    IF Len(target) >= 1 /\ target[Len(target)] = Slash THEN Done(finder, LuaError("runtime"))
    ELSE IF ~GlobValid(target) THEN Done(finder, LuaError("runtime"))
    ELSE IF GlobHasRoot(target) \/ GlobHasSemantic(target) THEN Done(finder, LuaError("runtime"))
    ELSE IF finder.basedir = <<>> THEN Done(finder, LuaError("runtime"))
    ELSE LET base == finder.basedir[1] IN
         IF base \in DOMAIN finder.deletes
         THEN Done([finder EXCEPT !.deletes[base] = Append(@, target)], LuaOk)
         ELSE Done([finder EXCEPT !.deletes = (base :> <<target>>) @@ @], LuaOk)

\* bail_out: Err(ExternalError(BailOut))
bail_out(finder) == Done(finder, LuaError("bail"))

\* a call of the index script
Call(op, id, env, cands, silhouette, arg) ==
    [op |-> op, id |-> id, env |-> env, cands |-> cands, silhouette |-> silhouette, arg |-> arg]
CallDetectDir(id, env, cands, silhouette) == Call("detect_dir", id, env, cands, silhouette, <<>>)
CallBasedir(id) == Call("basedir", id, <<>>, <<>>, <<>>, <<>>)
CallCd(rel) == Call("cd", "", <<>>, <<>>, <<>>, rel)
CallInstall(url) == Call("install", "", <<>>, <<>>, <<>>, url)
CallDeleteUnmatched(glob) == Call("delete_unmatched", "", <<>>, <<>>, <<>>, glob)
CallBailOut == Call("bail_out", "", <<>>, <<>>, <<>>, <<>>)
\* the script itself fails (a syntax error, error(), a nil call)
CallRaise == Call("raise", "", <<>>, <<>>, <<>>, <<>>)
\* pcall(bail_out), pcall(basedir, id): the base library is loaded, and pcall
\* catches the error of the call
CallProtectedBailOut == Call("pcall_bail_out", "", <<>>, <<>>, <<>>, <<>>)
CallProtectedBasedir(id) == Call("pcall_basedir", id, <<>>, <<>>, <<>>, <<>>)
\* the primitive a protected call calls
Protected == [pcall_bail_out |-> "bail_out", pcall_basedir |-> "basedir"]
Unprotected(c) == IF c.op \in DOMAIN Protected THEN [c EXCEPT !.op = Protected[c.op]] ELSE c

\* what the primitive returns to Lua
Primitive(finder, fsys, order, c) ==
    IF c.op = "detect_dir" THEN detect_dir(finder, fsys, order, c.id, c.env, c.cands, c.silhouette)
    ELSE IF c.op = "basedir" THEN basedir(finder, c.id)
    ELSE IF c.op = "cd" THEN cd(finder, c.arg)
    ELSE IF c.op = "install" THEN install(finder, c.arg)
    ELSE IF c.op = "delete_unmatched" THEN delete_unmatched(finder, c.arg)
    ELSE bail_out(finder)

\* the result of a primitive as the script sees it
Returned(r) == Done(r.uf, Raised(r.err))

\* one statement of the index: the finder after it and the error exec() ends
\* with, if any.  An error a primitive returns reaches exec() as a
\* CallbackError around it; an error of the script itself has no such layer.
Statement(finder, fsys, order, c) ==
    IF c.op = "raise" THEN Done(finder, LuaError("script"))
    ELSE IF c.op \in DOMAIN Protected
    THEN Done(Primitive(finder, fsys, order, Unprotected(c)).uf, LuaOk)
    ELSE Returned(Primitive(finder, fsys, order, c))

\* a report that leaves out the errors of the script itself
ReportsLuaError_CallbacksOnly(e) == e[1].layers >= 1 /\ ~(e[1].layers = 1 /\ e[1].root = "bail")

\* find_updates, lines 310-324: whether the error of exec() is reported.
\* Only a CallbackError is looked into, and only its direct cause is printed
\* and compared with "BAIL OUT".
ReportsLuaError(e) ==
    IF e[1].layers >= 1
    THEN ~(e[1].layers = 1 /\ e[1].root = "bail")
    ELSE TRUE

-----------------------------------------------------------------------------
(* Values of the variables of a specification that does not use them.      *)

NoDownload == [rest |-> <<>>, recvd |-> <<>>]

\* a server of which nothing is fixed: each request may get any answer
AnyServer == [index |-> <<>>, cats |-> <<>>, files |-> <<>>]

RunIdle ==
    /\ pc = "idle" /\ outcome = "running"
    /\ fs = (Root :> DirNode)
    /\ dir_order = "asc"
    /\ script = <<>> /\ uf = NewUpdateFinder
    /\ all_deletions = <<>> /\ all_cats = <<>>
    /\ loop_n = 0 /\ dl = NoDownload
    /\ gui = <<>> /\ gets = <<>>
    /\ joined = {} /\ examined = {} /\ written = {} /\ deleted = {} /\ verified = {}
    /\ bailed = FALSE /\ cat_invalid = FALSE /\ dl_bad = <<>> /\ trimmed = FALSE
    /\ phases = <<>>
    /\ install_calls = <<>> /\ cat_bodies = <<>> /\ io_failed = 0 /\ fetched = <<>>
    /\ fs_seen = <<>>
    /\ server = AnyServer /\ earlier = <<>>

PatIdle == clock = 0 /\ last_time = <<>> /\ calls = <<>>

DifferIdle ==
    /\ num_cats = 0 /\ todo = {} /\ ctr = 0 /\ wk = <<>> /\ updates = <<>>
    /\ cat_list = <<>> /\ disk = <<>> /\ faulty = 0 /\ pass = 0

SenseIdle == probe = <<>> /\ sensed = "none"

-----------------------------------------------------------------------------
(* SpecCat: the decoder on encoded, truncated and damaged catalogs.        *)

NoResult == [tag |-> "none"]
CatUrl == [base |-> "index", rel |-> "cat"]
CatBase == <<T_h>>

CatPaths == {T_a, T_ka, T_badhost, T_hidden, T_latin1}
CatFields ==
    { [checksum |-> Sha256(T_hi), size |-> ToBe(2, 8), ext |-> <<>>],
      [checksum |-> Sha256(T_nl), size |-> ToBe(266, 8), ext |-> <<NL>>],
      [checksum |-> Sha256(T_hj), size |-> ToBe(2, 8), ext |-> Sevens(256)] }
CatEntries ==
    { [path |-> p, checksum |-> f.checksum, size |-> f.size, ext |-> f.ext] :
        p \in CatPaths, f \in CatFields }

SeqsUpTo(S, n) == UNION { [1..k -> S] : k \in 0..n }

Min(a, b) == IF a < b THEN a ELSE b

InitCat ==
    /\ overflow_checks \in BOOLEAN
    /\ c_entries \in SeqsUpTo(CatEntries, MaxEntries)
    /\ c_level = "entries"
    /\ c_bytes = <<>>
    /\ c_whole = TRUE
    /\ c_result = NoResult
    /\ RunIdle
    /\ PatIdle
    /\ DifferIdle
    /\ SenseIdle

\* the payload of the entry list, in the layout of the format
CatEncode ==
    /\ c_level = "entries"
    /\ c_level' = "payload"
    /\ c_bytes' = EncodePayload(c_entries)
    /\ UNCHANGED <<overflow_checks, c_entries, c_whole, c_result, runvars, patvars, wrkvars,
                   sensevars>>

\* a payload that lost its last k bytes
CatCutPayload ==
    /\ c_level = "payload" /\ c_whole
    /\ \E k \in 1..Min(MaxCut, Len(c_bytes)) : c_bytes' = Take(c_bytes, Len(c_bytes) - k)
    /\ c_whole' = FALSE
    /\ UNCHANGED <<overflow_checks, c_entries, c_level, c_result, runvars, patvars, wrkvars,
                   sensevars>>

\* one call of Cat::try_parse on the payload
CatTryParse ==
    /\ c_level = "payload"
    /\ c_level' = "tried"
    /\ c_result' = try_parse(c_bytes, CatUrl, CatBase, overflow_checks)
    /\ UNCHANGED <<overflow_checks, c_entries, c_bytes, c_whole, runvars, patvars, wrkvars,
                   sensevars>>

\* the loop of determine_tasks on the payload
CatParseAll ==
    /\ c_level = "payload"
    /\ c_level' = "parsed"
    /\ c_result' = ParseAll(c_bytes, CatUrl, CatBase, overflow_checks)
    /\ UNCHANGED <<overflow_checks, c_entries, c_bytes, c_whole, runvars, patvars, wrkvars,
                   sensevars>>

\* the catalog file around the payload: magic, digest, length, stream
CatWrap ==
    /\ c_level = "payload"
    /\ c_level' = "body"
    /\ c_bytes' = WrapCatalog(c_bytes)
    /\ UNCHANGED <<overflow_checks, c_entries, c_whole, c_result, runvars, patvars, wrkvars,
                   sensevars>>

\* a response body that ends after its first k bytes
CatCutBody ==
    /\ c_level = "body" /\ c_whole
    /\ \E k \in 0..Min(MaxCut, Len(c_bytes) - 1) : c_bytes' = Take(c_bytes, k)
    /\ c_whole' = FALSE
    /\ UNCHANGED <<overflow_checks, c_entries, c_level, c_result, runvars, patvars, wrkvars,
                   sensevars>>

\* a response body with one byte of its magic, digest or length changed
CatDamageHeader ==
    /\ c_level = "body" /\ c_whole
    /\ \E i \in 1..41 : c_bytes' = [c_bytes EXCEPT ![i] = (@ + 1) % 256]
    /\ c_whole' = FALSE
    /\ UNCHANGED <<overflow_checks, c_entries, c_level, c_result, runvars, patvars, wrkvars,
                   sensevars>>

\* determine_tasks on the response body
CatDecode ==
    /\ c_level = "body"
    /\ c_level' = "decoded"
    /\ c_result' = DecodeCatalog(c_bytes, CatUrl, CatBase, overflow_checks)
    /\ UNCHANGED <<overflow_checks, c_entries, c_bytes, c_whole, runvars, patvars, wrkvars,
                   sensevars>>

NextCat ==
    \/ CatEncode
    \/ CatCutPayload
    \/ CatTryParse
    \/ CatParseAll
    \/ CatWrap
    \/ CatCutBody
    \/ CatDamageHeader
    \/ CatDecode

SpecCat == InitCat /\ [][NextCat]_vars

-----------------------------------------------------------------------------
(* Claims on the catalog decoder (checked under SpecCat).                  *)

HeaderLen == 41
EntryFixedLen == 42

HasMagic(body) == Len(body) >= 5 /\ Slice(body, 0, 5) = Magic

\* C6: a catalog response body shorter than 41 bytes (the empty one included)
\* or without the magic ends determine_tasks in the error outcome: a do_error
\* and a failure return, never a crash and never an accepted catalog.
C6_ShortOrBadMagicIsError ==
    (c_level = "decoded" /\ (Len(c_bytes) < HeaderLen \/ ~HasMagic(c_bytes)))
        => (c_result.tag = "err" /\ c_result.title # "")

\* the number of bytes that follow the first newline
AfterNewline(bytes) == Len(bytes) - Position(bytes, NL) - 1

\* fewer than 42 + X bytes follow the first newline, X the extension length
\* (which cannot even be read when fewer than 42 follow)
EntryOverruns(bytes) ==
    LET newline == Position(bytes, NL) IN
    \/ AfterNewline(bytes) < EntryFixedLen
    \/ AfterNewline(bytes) <
         EntryFixedLen + U16FromBe(Slice(bytes, newline + 41, newline + 43))

\* C7: Cat::try_parse returns the parse error, never a crash and never an
\* entry, whenever fewer than 42 + X bytes follow the first newline.
C7_OverrunIsParseError ==
    (c_level = "tried" /\ Position(c_bytes, NL) >= 0 /\ EntryOverruns(c_bytes))
        => c_result.tag = "err"

\* an entry the format allows: nonempty newline-free non-fishy UTF-8 path,
\* extension shorter than 2^16 (checksum and size have their widths by type)
ValidEntry(e) ==
    /\ e.path # <<>>
    /\ Position(e.path, NL) = -1
    /\ IsUtf8(e.path)
    /\ ~is_fishy_path(e.path)
    /\ Len(e.checksum) = 32 /\ Len(e.size) = 8
    /\ Len(e.ext) < 65536

\* the CatalogEntry list the entries stand for
CatsOf(es, base_url, base_path) ==
    [i \in 1..Len(es) |->
        [src_url |-> UrlJoin(base_url, es[i].path),
         dst_path |-> PathJoin(base_path, es[i].path),
         checksum |-> es[i].checksum,
         size |-> es[i].size,
         needs_download |-> FALSE]]

RoundTripHolds ==
    c_result.tag = "ok" /\ c_result.cats = CatsOf(c_entries, CatUrl, CatBase)

\* C9 as stated: every list of valid entries, encoded in the entry layout and
\* decoded by the try_parse loop, comes back as the same list in the same
\* order with needs_download false.
C9_RoundTripAnyValidPath ==
    (c_level = "parsed" /\ c_whole /\ \A i \in 1..Len(c_entries) : ValidEntry(c_entries[i]))
        => RoundTripHolds

\* C9 amended: the same, for entries whose path Url::join accepts against the
\* catalog URL.
C9_RoundTripJoinable ==
    (/\ c_level = "parsed" /\ c_whole
     /\ \A i \in 1..Len(c_entries) :
            ValidEntry(c_entries[i]) /\ UrlJoinOk(c_entries[i].path))
        => RoundTripHolds

C9_Witness ==
    /\ c_level = "parsed" /\ c_whole
    /\ Len(c_entries) = 2
    /\ \A i \in 1..2 : ValidEntry(c_entries[i]) /\ UrlJoinOk(c_entries[i].path)
    /\ Len(c_entries[1].ext) = 256
    /\ c_entries[2].path = T_ka
    /\ c_result.tag = "ok" /\ Len(c_result.cats) = 2

-----------------------------------------------------------------------------
(* Planning and execution (main.rs).                                       *)

\* slice::sort_by with Path::cmp, as an insertion into a sorted list
RECURSIVE InsertSorted(_, _)
InsertSorted(list, p) ==
    IF list = <<>> THEN <<p>>
    ELSE IF PathLess(p, list[1]) THEN <<p>> \o list
    ELSE <<list[1]>> \o InsertSorted(Tail(list), p)

RECURSIVE SortPaths(_)
SortPaths(list) ==
    IF list = <<>> THEN <<>> ELSE InsertSorted(SortPaths(Tail(list)), list[1])

\* a planner that keeps equal neighbours
Dedup_None(list) == list

\* Vec::dedup_by: of equal neighbours the first stays
RECURSIVE Dedup(_)
Dedup(list) ==
    IF Len(list) <= 1 THEN list
    ELSE IF list[1] = list[2] THEN Dedup(Tail(list))
    ELSE <<list[1]>> \o Dedup(Tail(list))

\* the pushes of lines 173-187: every glob of every base walked
RECURSIVE WalkGlobs(_, _, _, _)
WalkGlobs(fsys, order, base, globs) ==
    IF globs = <<>> THEN <<>>
    ELSE WalkList(order, Walk(fsys, base, globs[1])) \o WalkGlobs(fsys, order, base, Tail(globs))

RECURSIVE WalkBases(_, _, _, _)
WalkBases(fsys, order, deletes, bases) ==
    IF bases = {} THEN <<>>
    ELSE LET base == CHOOSE b \in bases : TRUE IN
         WalkGlobs(fsys, order, base, deletes[base])
            \o WalkBases(fsys, order, deletes, bases \ {base})

\* Glob::new is Ok for every glob of deletes
GlobsParse(deletes) ==
    \A base \in DOMAIN deletes : \A i \in 1..Len(deletes[base]) : GlobValid(deletes[base][i])

\* determine_tasks, lines 172-191
PlanDeletions(fsys, order, deletes) ==
    Dedup(SortPaths(WalkBases(fsys, order, deletes, DOMAIN deletes)))

\* slice::binary_search_by: the 1-based index of target in list, or 0
RECURSIVE BinarySearch(_, _, _, _)
BinarySearch(list, target, left, right) ==
    IF left >= right THEN 0
    ELSE LET mid == left + ((right - left) \div 2)
             el == list[mid + 1]
         IN
         IF PathLess(el, target) THEN BinarySearch(list, target, mid + 1, right)
         ELSE IF PathLess(target, el) THEN BinarySearch(list, target, left, mid)
         ELSE mid + 1

RemoveAt(list, i) == Take(list, i - 1) \o Drop(list, i)

\* lines 328-332: the path is looked up and, if found, removed
TrimOne(dels, x) == IF x # 0 THEN RemoveAt(dels, x) ELSE dels

TrimPath_NoParents(dels, dis) == TrimOne(dels, BinarySearch(dels, dis, 0, Len(dels)))

\* the inner loop of trim_deletions: dis and each parent of it
RECURSIVE TrimPath(_, _)
TrimPath(dels, dis) ==
    IF dis = Root THEN TrimOne(dels, BinarySearch(dels, dis, 0, Len(dels)))
    ELSE TrimPath(TrimOne(dels, BinarySearch(dels, dis, 0, Len(dels))), Parent(dis))

RECURSIVE trim_deletions(_, _)
trim_deletions(cats, dels) ==
    IF cats = <<>> THEN dels
    ELSE trim_deletions(Tail(cats), TrimPath(dels, cats[1].dst_path))

\* find_cat_statuses for one entry: whether it is left with needs_download
\* a differ that compares the length only
NeedsDownload_LengthOnly(fsys, cat, io_error) ==
    \/ ~Exists(fsys, cat.dst_path)
    \/ io_error
    \/ IsDir(fsys, cat.dst_path)
    \/ ToBe(Len(At(fsys, cat.dst_path).data), 8) # cat.size

\* a differ that is content with any file at the path
NeedsDownload_ExistsOnly(fsys, cat, io_error) == ~Exists(fsys, cat.dst_path) \/ io_error

NeedsDownload(fsys, cat, io_error) ==
    \/ ~Exists(fsys, cat.dst_path)                             \* metadata: not found
    \/ io_error                                                \* metadata, open or read fails
    \/ IsDir(fsys, cat.dst_path)                               \* length differs or read fails
    \/ ToBe(Len(At(fsys, cat.dst_path).data), 8) # cat.size
    \/ Sha256(At(fsys, cat.dst_path).data) # cat.checksum

\* a downloader that passes over no entry
Skipped_Never(cat) == FALSE

\* line 378: if !cat.needs_download { continue }
Skipped(cat) == ~cat.needs_download

\* the test of line 433
Corrupted_DigestOnly(recvd, cat) == Sha256(recvd) # cat.checksum

Corrupted(recvd, cat) ==
    Sha256(recvd) # cat.checksum \/ ToBe(Len(recvd), 8) # cat.size

\* the loop condition of line 406
WantsMore(recvd, cat) == BeLeq(ToBe(Len(recvd), 8), cat.size)

DoError(title) == [call |-> "do_error", title |-> title]
DoMessage(title) == [call |-> "do_message", title |-> title]

\* real_main, lines 479-481: what follows perform_downloads
AfterDownloads_Ignored(ok) == "delete"

AfterDownloads(ok) == IF ok THEN "delete" ELSE "done"

\* find_target_url: target is <<>> (no argument, no tupdate.conf) or
\* <<scheme>>; whether a URL comes back, and the dialogs on the way
find_target_url(target) ==
    IF target = <<>> THEN [ok |-> FALSE, report |-> <<DoError("No URL specified")>>]
    ELSE IF target[1] \notin {"http", "https"} THEN [ok |-> FALSE, report |-> <<>>]
    ELSE [ok |-> TRUE, report |-> <<>>]

\* a request as the server sees it
Get(kind, rel) == [kind |-> kind, rel |-> rel]

\* the paths that differ between two filesystems
Changed(old, new) ==
    { p \in DOMAIN new : p \notin DOMAIN old \/ new[p] # old[p] }
        \cup { p \in DOMAIN old : p \notin DOMAIN new }

-----------------------------------------------------------------------------
(* Spec: the world of one run.                                             *)

MaxChunk == 2

T_home == <<Slash, 104>>                    \* "/h"
T_cat == <<99, 97, 116>>                    \* "cat"
T_cat2 == <<99, 97, 116, 50>>               \* "cat2"
T_kdir == <<107, Slash>>                    \* "k/"
T_ktree == <<107, Slash, Star, Star>>       \* "k/**"
T_h1 == <<104>>                             \* "h"
T_hij == <<104, 105, 106>>                  \* "hij"
T_homeAgain == <<Slash, 104, Slash, 107, Slash, Dot, Dot>>    \* "/h/k/.."

Home == <<T_h>>

\* the filesystems a run can start in: the home directory, with or without
\* a (a file or a directory) and k (a directory with or without files)
FsHome == (Root :> DirNode) @@ (Home :> DirNode)
FsA ==
    { <<>>,
      (<<T_h, T_a>> :> FileNode(T_hi)),
      (<<T_h, T_a>> :> FileNode(T_hj)),
      (<<T_h, T_a>> :> DirNode) }
FsK ==
    { <<>>,
      (<<T_h, T_k>> :> DirNode),
      (<<T_h, T_k>> :> DirNode) @@ (<<T_h, T_k, T_a>> :> FileNode(T_hi)),
      (<<T_h, T_k>> :> DirNode) @@ (<<T_h, T_k, T_a>> :> FileNode(T_hj))
            @@ (<<T_h, T_k, T_b>> :> FileNode(T_hj)) }
InitFs == { FsHome @@ a @@ k : a \in FsA, k \in FsK }

\* the indexes the server may serve
DetectHome == CallDetectDir("HOME", <<>>, <<Yield(T_a), Yield(T_home)>>, <<>>)
DetectHomeEnv == CallDetectDir("HOME", <<T_home>>, <<>>, <<G_any>>)
DetectBailOut == CallDetectDir("HOME", <<>>, <<IterBailOut>>, <<>>)
Prologue == <<CallDetectDir("HOME", <<>>, <<Yield(T_home)>>, <<>>), CallBasedir("HOME")>>
\* detect_dir for an identifier that is registered, with candidates that would
\* be accepted
DetectAgain ==
    { CallDetectDir("HOME", <<<<Slash>>>>, <<>>, <<>>),
      CallDetectDir("HOME", <<>>, <<Yield(<<Slash>>)>>, <<>>),
      CallDetectDir("HOME", <<<<Slash>>>>, <<Yield(T_home)>>, <<G_any>>) }
AfterDetectAgain == <<CallBasedir("HOME"), CallCd(T_k), CallInstall(T_cat2)>>
\* detect_dir with the environment variable set and a candidate, with
\* candidates of which the second may be accepted and after which the iterator
\* would bail out, and with a candidate that is not accepted
DetectEnvFirst == CallDetectDir("HOME", <<T_home>>, <<Yield(<<Slash>>)>>, <<>>)
DetectSecond ==
    CallDetectDir("HOME", <<>>, <<Yield(<<Slash>>), Yield(T_home), IterBailOut>>, <<T_a>>)
DetectNone == CallDetectDir("HOME", <<>>, <<Yield(<<Slash>>)>>, <<T_a>>)
AfterDetectSecond == <<CallBasedir("HOME"), CallCd(T_k), CallInstall(T_cat)>>
\* a second identifier for the home directory, written by way of k
DetectData == CallDetectDir("DATA", <<>>, <<Yield(T_homeAgain)>>, <<>>)
\* calls that fail, after calls that have filled the finder and at the start
Filled == Prologue \o <<CallInstall(T_cat), CallDeleteUnmatched(G_any)>>
Refused ==
    { CallCd(T_up), CallInstall(T_badhost), CallDeleteUnmatched(T_kdir),
      CallBasedir("DATA"), CallDeleteUnmatched(<<LBracket>>), CallDeleteUnmatched(T_home),
      CallDeleteUnmatched(T_up) }

ServedIndex ==
    { Prologue \o <<CallInstall(T_cat)>>,
      Prologue \o <<CallInstall(T_cat), CallDeleteUnmatched(G_any)>>,
      Prologue \o <<CallDeleteUnmatched(T_ktree), CallInstall(T_cat)>>,
      Prologue \o <<CallDeleteUnmatched(G_any), CallCd(T_k), CallInstall(T_cat),
                    CallDeleteUnmatched(G_any)>>,
      Prologue \o <<CallInstall(T_cat), CallInstall(T_cat2), CallDeleteUnmatched(T_ktree)>>,
      <<DetectHomeEnv, CallBasedir("HOME"), CallInstall(T_cat)>>,
      <<DetectHome>>,
      Prologue \o <<CallInstall(T_cat), CallBailOut>>,
      <<DetectBailOut>>,
      Prologue \o <<CallProtectedBailOut, CallInstall(T_cat)>>,
      Prologue \o <<CallCd(T_up)>>,
      Prologue \o <<CallCd(T_k), CallCd(T_inner), CallInstall(T_cat)>>,
      Prologue \o <<CallInstall(T_badhost)>>,
      Prologue \o <<CallDeleteUnmatched(T_kdir)>>,
      <<CallInstall(T_cat)>>,
      <<CallRaise>> }
    \cup { Prologue \o <<d>> \o AfterDetectAgain : d \in DetectAgain }
    \cup { Prologue \o <<CallInstall(T_cat), CallCd(T_k), CallInstall(T_cat2)>> }
    \cup { <<DetectEnvFirst, CallBasedir("HOME"), CallInstall(T_cat)>>,
           <<DetectSecond>> \o AfterDetectSecond,
           <<DetectNone, CallBasedir("HOME")>> }
    \cup { Filled \o <<c>> : c \in Refused }
    \cup { <<CallCd(T_k)>>, <<CallDeleteUnmatched(G_any)>> }
    \cup { Prologue \o <<CallProtectedBasedir("DATA"), CallInstall(T_cat)>> }
    \cup { Prologue \o <<CallDeleteUnmatched(G_any), CallDeleteUnmatched(T_ktree),
                         CallInstall(T_cat)>> }
    \cup { Prologue \o <<DetectData, CallInstall(T_cat), CallBasedir("DATA"),
                         CallDeleteUnmatched(G_any)>> }
    \cup { Prologue \o <<CallCd(T_k), CallCd(T_a), CallBasedir("HOME"), CallInstall(T_cat)>> }

\* the catalogs the server may serve
Entry(path, content, size) ==
    [path |-> path, checksum |-> Sha256(content), size |-> ToBe(size, 8), ext |-> <<>>]

GoodLists ==
    { <<>>,
      <<Entry(T_a, T_hi, 2)>>,
      <<Entry(T_a, T_hi, 2), Entry(T_a, T_hj, 2)>>,
      <<Entry(T_ka, T_hi, 2)>>,
      <<Entry(T_a, T_hi, 3), Entry(T_kb, T_hj, 2)>>,
      <<Entry(T_a, T_hj, 2), Entry(T_kb, T_hj, 2)>> }
BadLists ==
    { <<Entry(T_up, T_hi, 2)>>,
      <<Entry(T_a, T_hi, 2), Entry(T_inner, T_hi, 2)>>,
      <<Entry(T_hidden, T_hi, 2)>>,
      <<Entry(T_latin1, T_hi, 2)>>,
      <<Entry(T_badhost, T_hi, 2)>> }

OneEntry == EncodePayload(<<Entry(T_a, T_hi, 2)>>)
Damaged(body, i) == [body EXCEPT ![i] = (@ + 1) % 256]

ServedCat ==
    { EncodeCatalog(es) : es \in GoodLists \cup BadLists }
    \cup { <<>>,
           Take(EncodeCatalog(<<>>), 3),
           Damaged(EncodeCatalog(<<>>), 1),
           Damaged(WrapCatalog(OneEntry), 6),
           Damaged(WrapCatalog(OneEntry), 41),
           Damaged(WrapCatalog(OneEntry), 42),
           WrapCatalog(Take(OneEntry, Len(OneEntry) - 1)),
           WrapCatalog(<<97, NL>>),
           WrapCatalog(<<97>>) }

ServedCat2 ==
    { EncodeCatalog(<<Entry(T_kb, T_hi, 2)>>),
      Damaged(WrapCatalog(OneEntry), 6),
      WrapCatalog(Take(OneEntry, Len(OneEntry) - 1)) }

Served(rel) == IF rel = T_cat THEN ServedCat ELSE ServedCat2

\* the bodies the server may send for a file
FileBodies == { T_hi, T_hj, T_h1, T_hij }

\* what a request can get: what the server holds at the URL if that is fixed,
\* anything otherwise
IndexOffer == IF server.index # <<>> THEN {server.index[1]} ELSE ServedIndex
CatOffer(rel) == IF rel \in DOMAIN server.cats THEN {server.cats[rel]} ELSE Served(rel)
FileOffer(rel) == IF rel \in DOMAIN server.files THEN {server.files[rel]} ELSE FileBodies

CatIdle ==
    /\ c_entries = <<>> /\ c_level = "idle" /\ c_bytes = <<>>
    /\ c_whole = TRUE /\ c_result = NoResult

history == <<joined, examined, written, deleted, verified, bailed, cat_invalid, dl_bad, trimmed>>

Init ==
    /\ overflow_checks \in BOOLEAN
    /\ CatIdle
    /\ pc = "start" /\ outcome = "running"
    /\ fs \in InitFs
    /\ dir_order \in {"asc", "desc"}
    /\ script = <<>> /\ uf = NewUpdateFinder
    /\ all_deletions = <<>> /\ all_cats = <<>>
    /\ loop_n = 0 /\ dl = NoDownload
    /\ gui = <<>> /\ gets = <<>>
    /\ joined = {} /\ examined = {} /\ written = {} /\ deleted = {} /\ verified = {}
    /\ bailed = FALSE /\ cat_invalid = FALSE /\ dl_bad = <<>> /\ trimmed = FALSE
    /\ phases = <<>>
    /\ install_calls = <<>> /\ cat_bodies = <<>> /\ io_failed = 0 /\ fetched = <<>>
    /\ fs_seen = <<>>
    /\ server = AnyServer /\ earlier = <<>>
    /\ PatIdle
    /\ DifferIdle
    /\ SenseIdle

Fail_ExitsSuccess(title) ==
    /\ gui' = Append(gui, DoError(title))
    /\ pc' = "done"
    /\ outcome' = "success"

\* the run is in phase ph: the log of phases with ph as its last entry
InPhase(ph) == IF phases # <<>> /\ phases[Len(phases)] = ph THEN phases ELSE Append(phases, ph)

\* the run ends: return ExitCode::FAILURE after a do_error
Fail(title) ==
    /\ gui' = Append(gui, DoError(title))
    /\ pc' = "done"
    /\ outcome' = "failure"

\* the run ends in a panic
Panic ==
    /\ pc' = "done"
    /\ outcome' = "panic"
    /\ UNCHANGED gui

\* real_main, lines 463-466
Start ==
    /\ pc = "start"
    /\ UNCHANGED phases
    /\ \E target \in {<<>>, <<"ftp">>, <<"http">>} :
          LET r == find_target_url(target) IN
          /\ gui' = gui \o r.report
          /\ pc' = IF r.ok THEN "index" ELSE "done"
          /\ outcome' = IF r.ok THEN outcome ELSE "failure"
    /\ UNCHANGED <<overflow_checks, catvars, patvars, wrkvars, sensevars, world, records, fs,
                   dir_order, script,
                   uf,
                   all_deletions,
                   all_cats, loop_n, dl, gets, history>>

\* determine_tasks, lines 156-166: the index arrives
GetIndex ==
    /\ pc = "index"
    /\ phases' = InPhase("index")
    /\ gets' = Append(gets, Get("index", <<>>))
    /\ script' \in IndexOffer
    /\ pc' = "script"
    /\ UNCHANGED <<overflow_checks, catvars, patvars, wrkvars, sensevars, world, records,
                   outcome, fs,
                   dir_order, uf,
                   all_deletions,
                   all_cats, loop_n, dl, gui, history>>

\* a status other than 200, or no response
GetIndexFails ==
    /\ pc = "index"
    /\ phases' = InPhase("index")
    /\ gets' = Append(gets, Get("index", <<>>))
    /\ Fail("Download failed")
    /\ UNCHANGED <<overflow_checks, catvars, patvars, wrkvars, sensevars, world, records, fs,
                   dir_order, script,
                   uf,
                   all_deletions,
                   all_cats, loop_n, dl, history>>

\* x.bytes().await.unwrap(): the body breaks off
GetIndexBodyFails ==
    /\ pc = "index"
    /\ phases' = InPhase("index")
    /\ gets' = Append(gets, Get("index", <<>>))
    /\ Panic
    /\ UNCHANGED <<overflow_checks, catvars, patvars, wrkvars, sensevars, world, records, fs,
                   dir_order, script,
                   uf,
                   all_deletions,
                   all_cats, loop_n, dl, history>>

\* find_updates, lines 310-324: what follows a statement c with result r
Executed(c, r) ==
    /\ uf' = r.uf
    /\ bailed' = (bailed \/ c.op = "pcall_bail_out"
                         \/ (r.err # LuaOk /\ r.err[1].root = "bail"))
    /\ joined' = IF c.op = "cd" /\ r.err = LuaOk THEN joined \cup {c.arg} ELSE joined
    /\ install_calls' = IF c.op = "install" /\ r.err = LuaOk
                        THEN Append(install_calls, [basedir |-> uf.basedir, target |-> c.arg])
                        ELSE install_calls
    /\ IF r.err = LuaOk
       THEN /\ script' = Tail(script)
            /\ UNCHANGED <<pc, outcome, gui>>
       ELSE /\ script' = script
            /\ pc' = "done"
            /\ outcome' = "failure"
            /\ gui' = IF ReportsLuaError(r.err) THEN Append(gui, DoError("Lua error"))
                      ELSE gui

\* find_updates: one statement of the index runs; an error ends exec()
ScriptStep ==
    /\ pc = "script" /\ script # <<>>
    /\ phases' = InPhase("index")
    /\ Executed(script[1], Statement(uf, fs, dir_order, script[1]))

    /\ UNCHANGED <<overflow_checks, catvars, patvars, wrkvars, sensevars, world, cat_bodies,
                   io_failed, fs_seen,
                   fetched,
                   fs,
                   dir_order, all_deletions, all_cats,
                   loop_n, dl, gets, examined, written, deleted, verified, cat_invalid,
                   dl_bad, trimmed>>

\* determine_tasks, lines 172-191: the index is done, the globs are walked
ScriptEnd ==
    /\ pc = "script" /\ script = <<>>
    /\ phases' = InPhase("planning")
    /\ IF GlobsParse(uf.deletes)
       THEN /\ all_deletions' = PlanDeletions(fs, dir_order, uf.deletes)
            /\ pc' = "catalogs"
            /\ loop_n' = 1
            /\ UNCHANGED <<outcome, gui>>
       ELSE \* Glob::new(&glob).unwrap(), line 175
            /\ Panic
            /\ UNCHANGED <<all_deletions, loop_n>>
    /\ UNCHANGED <<overflow_checks, catvars, patvars, wrkvars, sensevars, world, records, fs,
                   dir_order,
                   script, uf, all_cats, dl, gets, history>>

\* the walk meets a directory it cannot read
WalkFails ==
    /\ pc = "script" /\ script = <<>>
    /\ phases' = InPhase("planning")
    /\ DOMAIN uf.deletes # {}
    /\ Fail("Error checking files to delete")
    /\ UNCHANGED <<overflow_checks, catvars, patvars, wrkvars, sensevars, world, records, fs,
                   dir_order, script,
                   uf,
                   all_deletions,
                   all_cats, loop_n, dl, gets, history>>

\* a catalog body with a whole header and the magic that the decoder does
\* not accept: the stream, the length, the digest or an entry is wrong
FailsValidation(body, caturl, base_path, oc) ==
    /\ Len(body) >= HeaderLen
    /\ HasMagic(body)
    /\ DecodeCatalog(body, caturl, base_path, oc).tag # "ok"

\* determine_tasks, lines 194-249: one catalog is fetched and decoded
GetCatalog ==
    /\ pc = "catalogs" /\ loop_n <= Len(uf.installs)
    /\ phases' = InPhase("catalogs")
    /\ LET inst == uf.installs[loop_n] IN
       \E body \in CatOffer(inst.url.rel) :
          LET r == DecodeCatalog(body, inst.url, inst.base_dir, overflow_checks) IN
          /\ gets' = Append(gets, Get("catalog", inst.url.rel))
          /\ cat_bodies' = IF r.tag = "ok" THEN Append(cat_bodies, body) ELSE cat_bodies
          /\ cat_invalid' =
                (cat_invalid \/ FailsValidation(body, inst.url, inst.base_dir, overflow_checks))
          /\ IF r.tag = "ok"
             THEN /\ all_cats' = all_cats \o r.cats
                  /\ joined' = joined \cup { r.cats[i].src_url.rel : i \in 1..Len(r.cats) }
                  /\ loop_n' = loop_n + 1
                  /\ UNCHANGED <<pc, outcome, gui>>
             ELSE /\ IF r.tag = "err" THEN Fail(r.title) ELSE Panic
                  /\ UNCHANGED <<all_cats, joined, loop_n>>

    /\ UNCHANGED <<overflow_checks, catvars, patvars, wrkvars, sensevars, world, install_calls,
                   io_failed,
                   fs_seen,
                   fetched, fs,
                   dir_order, script, uf, all_deletions, dl,
                   examined, written, deleted, verified, bailed, dl_bad, trimmed>>

\* a status other than 200, or no response
GetCatalogFails ==
    /\ pc = "catalogs" /\ loop_n <= Len(uf.installs)
    /\ phases' = InPhase("catalogs")
    /\ gets' = Append(gets, Get("catalog", uf.installs[loop_n].url.rel))
    /\ Fail("Download failed")
    /\ UNCHANGED <<overflow_checks, catvars, patvars, wrkvars, sensevars, world, records, fs,
                   dir_order, script,
                   uf,
                   all_deletions,
                   all_cats, loop_n, dl, history>>

\* x.bytes().await.unwrap(): the body breaks off
GetCatalogBodyFails ==
    /\ pc = "catalogs" /\ loop_n <= Len(uf.installs)
    /\ phases' = InPhase("catalogs")
    /\ gets' = Append(gets, Get("catalog", uf.installs[loop_n].url.rel))
    /\ Panic
    /\ UNCHANGED <<overflow_checks, catvars, patvars, wrkvars, sensevars, world, records, fs,
                   dir_order, script,
                   uf,
                   all_deletions,
                   all_cats, loop_n, dl, history>>

\* find_cat_statuses; the entry numbered io_error, if any, meets an I/O error
Differ ==
    /\ pc = "catalogs" /\ loop_n > Len(uf.installs)
    /\ phases' = InPhase("differ")
    /\ \E io_error \in 0..Len(all_cats) :
          /\ all_cats' = [i \in 1..Len(all_cats) |->
                          [all_cats[i] EXCEPT
                              !.needs_download = NeedsDownload(fs, all_cats[i], i = io_error)]]
          /\ io_failed' = io_error
    /\ fs_seen' = fs
    /\ examined' = { all_cats[i].dst_path : i \in 1..Len(all_cats) }
    /\ pc' = "trim"

    /\ UNCHANGED <<overflow_checks, catvars, patvars, wrkvars, sensevars, world, install_calls,
                   cat_bodies,
                   fetched,
                   outcome, fs, dir_order, script, uf,
                   all_deletions, loop_n, dl, gui, gets, joined, written, deleted, verified,
                   bailed, cat_invalid, dl_bad, trimmed>>

\* real_main, line 478
Trim ==
    /\ pc = "trim"
    /\ phases' = InPhase("planning")
    /\ all_deletions' = trim_deletions(all_cats, all_deletions)
    /\ trimmed' = TRUE
    /\ pc' = "download"
    /\ loop_n' = 1
    /\ UNCHANGED <<overflow_checks, catvars, patvars, wrkvars, sensevars, world, records,
                   outcome, fs,
                   dir_order, script,
                   uf, all_cats,
                   dl, gui, gets, joined, examined, written, deleted, verified, bailed,
                   cat_invalid, dl_bad>>

\* a downloader that reports the error and goes on with the next entry
DownloadFails_GoesOn(title) ==
    /\ gui' = Append(gui, DoError(title))
    /\ pc' = "download"
    /\ outcome' = outcome
    /\ loop_n' = loop_n + 1

\* perform_downloads returns Err(()) after a do_error
DownloadFails(title) ==
    /\ gui' = Append(gui, DoError(title))
    /\ pc' = AfterDownloads(FALSE)
    /\ outcome' = IF pc' = "done" THEN "failure" ELSE outcome
    /\ loop_n' = IF pc' = "done" THEN loop_n ELSE 1

\* line 378: an entry that is up to date
DlSkip ==
    /\ pc = "download" /\ loop_n <= Len(all_cats)
    /\ phases' = InPhase("downloads")
    /\ Skipped(all_cats[loop_n])
    /\ loop_n' = loop_n + 1
    /\ UNCHANGED <<overflow_checks, catvars, patvars, wrkvars, sensevars, world, records, pc,
                   outcome, fs,
                   dir_order,
                   script, uf,
                   all_deletions, all_cats, dl, gui, gets, history>>

\* lines 379-403: the response arrives, the file is created
DlGet ==
    /\ pc = "download" /\ loop_n <= Len(all_cats)
    /\ phases' = InPhase("downloads")
    /\ ~Skipped(all_cats[loop_n])
    /\ LET cat == all_cats[loop_n]
           made == create_dir_all(fs, Parent(cat.dst_path))
       IN
       /\ gets' = Append(gets, Get("file", cat.src_url.rel))
       /\ IF CanCreate(made, cat.dst_path)
          THEN /\ fs' = (Real(made, cat.dst_path) :> FileNode(<<>>)) @@ made
               /\ \E body \in FileOffer(cat.src_url.rel) : dl' = [rest |-> body, recvd |-> <<>>]
               /\ pc' = "body"
               /\ UNCHANGED <<outcome, gui, loop_n>>
          ELSE /\ fs' = made
               /\ DownloadFails("Update failed")
               /\ UNCHANGED dl
       /\ written' = written \cup Changed(fs, fs')
    /\ fetched' = Append(fetched, loop_n)
    /\ UNCHANGED <<overflow_checks, catvars, patvars, wrkvars, sensevars, world, install_calls,
                   cat_bodies,
                   io_failed,
                   fs_seen,
                   dir_order, script, uf, all_deletions, all_cats,
                   joined, examined, deleted, verified, bailed, cat_invalid, dl_bad, trimmed>>

\* a status other than 200, or no response
DlGetFails ==
    /\ pc = "download" /\ loop_n <= Len(all_cats)
    /\ phases' = InPhase("downloads")
    /\ ~Skipped(all_cats[loop_n])
    /\ gets' = Append(gets, Get("file", all_cats[loop_n].src_url.rel))
    /\ DownloadFails("Download failed")
    /\ fetched' = Append(fetched, loop_n)
    /\ UNCHANGED <<overflow_checks, catvars, patvars, wrkvars, sensevars, world, install_calls,
                   cat_bodies,
                   io_failed,
                   fs_seen,
                   fs, dir_order, script, uf, all_deletions,
                   all_cats, dl, history>>

\* File::create fails where it could have worked (no permission, no space)
DlCreateFails ==
    /\ pc = "download" /\ loop_n <= Len(all_cats)
    /\ phases' = InPhase("downloads")
    /\ ~Skipped(all_cats[loop_n])
    /\ gets' = Append(gets, Get("file", all_cats[loop_n].src_url.rel))
    /\ fs' = create_dir_all(fs, Parent(all_cats[loop_n].dst_path))
    /\ written' = written \cup Changed(fs, fs')
    /\ DownloadFails("Update failed")
    /\ fetched' = Append(fetched, loop_n)
    /\ UNCHANGED <<overflow_checks, catvars, patvars, wrkvars, sensevars, world, install_calls,
                   cat_bodies,
                   io_failed,
                   fs_seen,
                   dir_order, script, uf, all_deletions, all_cats,
                   dl, joined, examined, deleted, verified, bailed, cat_invalid, dl_bad,
                   trimmed>>

\* lines 412-429: one chunk is received and written
DlChunk ==
    /\ pc = "body"
    /\ phases' = InPhase("downloads")
    /\ WantsMore(dl.recvd, all_cats[loop_n])
    /\ dl.rest # <<>>
    /\ \E k \in 1..Min(MaxChunk, Len(dl.rest)) :
          LET x == Take(dl.rest, k)
              dst == Real(fs, all_cats[loop_n].dst_path)
          IN
          /\ fs' = [fs EXCEPT ![dst] = FileNode(@.data \o x)]
          /\ dl' = [rest |-> Drop(dl.rest, k), recvd |-> dl.recvd \o x]
          /\ written' = written \cup {dst}
    /\ UNCHANGED <<overflow_checks, catvars, patvars, wrkvars, sensevars, world, records, pc,
                   outcome,
                   dir_order, script,
                   uf,
                   all_deletions, all_cats, loop_n, gui, gets, joined, examined, deleted,
                   verified, bailed, cat_invalid, dl_bad, trimmed>>

\* response.chunk() returns an error
DlChunkFails ==
    /\ pc = "body"
    /\ phases' = InPhase("downloads")
    /\ WantsMore(dl.recvd, all_cats[loop_n])
    /\ DownloadFails("Download failed")
    /\ UNCHANGED <<overflow_checks, catvars, patvars, wrkvars, sensevars, world, records, fs,
                   dir_order, script,
                   uf,
                   all_deletions,
                   all_cats, dl, gets, history>>

\* write_all returns an error
DlWriteFails ==
    /\ pc = "body"
    /\ phases' = InPhase("downloads")
    /\ WantsMore(dl.recvd, all_cats[loop_n])
    /\ dl.rest # <<>>
    /\ DownloadFails("Update failed")
    /\ UNCHANGED <<overflow_checks, catvars, patvars, wrkvars, sensevars, world, records, fs,
                   dir_order, script,
                   uf,
                   all_deletions,
                   all_cats, dl, gets, history>>

\* the received bytes differ from the entry in digest or in number
BodyMismatch(recvd, cat) ==
    Sha256(recvd) # cat.checksum \/ ToBe(Len(recvd), 8) # cat.size

\* lines 406-436: the loop ends (no chunk left, or more bytes than the size),
\* the digest and the count are compared
DlEnd ==
    /\ pc = "body"
    /\ phases' = InPhase("downloads")
    /\ (~WantsMore(dl.recvd, all_cats[loop_n]) \/ dl.rest = <<>>)
    /\ dl_bad' = IF BodyMismatch(dl.recvd, all_cats[loop_n])
                 THEN <<[cat |-> all_cats[loop_n], at |-> Len(gets)]>>
                 ELSE dl_bad
    /\ IF Corrupted(dl.recvd, all_cats[loop_n])
       THEN /\ DownloadFails("Update failed")
            /\ UNCHANGED <<verified, dl>>
       ELSE /\ verified' = verified \cup {loop_n}
            /\ loop_n' = loop_n + 1
            /\ pc' = "download"
            /\ dl' = NoDownload
            /\ UNCHANGED <<outcome, gui>>
    /\ UNCHANGED <<overflow_checks, catvars, patvars, wrkvars, sensevars, world, records, fs,
                   dir_order, script,
                   uf,
                   all_deletions,
                   all_cats, gets, joined, examined, written, deleted, bailed, cat_invalid,
                   trimmed>>

\* perform_downloads returns Ok(())
DlDone ==
    /\ pc = "download" /\ loop_n > Len(all_cats)
    /\ phases' = InPhase("downloads")
    /\ pc' = AfterDownloads(TRUE)
    /\ loop_n' = 1
    /\ UNCHANGED <<overflow_checks, catvars, patvars, wrkvars, sensevars, world, records,
                   outcome, fs,
                   dir_order, script,
                   uf,
                   all_deletions, all_cats, dl, gui, gets, history>>

\* perform_deletions: one path of the list
DelStep ==
    /\ pc = "delete" /\ loop_n <= Len(all_deletions)
    /\ phases' = InPhase("deletions")
    /\ LET deletion == all_deletions[loop_n] IN
       IF ~Exists(fs, deletion)
       THEN UNCHANGED <<fs, deleted>>
       ELSE /\ fs' = IF IsDir(fs, deletion) THEN remove_dir_all(fs, deletion)
                     ELSE remove_file(fs, deletion)
            /\ deleted' = deleted \cup {Real(fs, deletion)}
    /\ loop_n' = loop_n + 1
    /\ UNCHANGED <<overflow_checks, catvars, patvars, wrkvars, sensevars, world, records, pc,
                   outcome,
                   dir_order, script,
                   uf,
                   all_deletions, all_cats, dl, gui, gets, joined, examined, written,
                   verified, bailed, cat_invalid, dl_bad, trimmed>>

\* metadata or the removal fails for a path that is there
DelFails ==
    /\ pc = "delete" /\ loop_n <= Len(all_deletions)
    /\ phases' = InPhase("deletions")
    /\ Exists(fs, all_deletions[loop_n])
    /\ Fail("Error during final deletion")
    /\ UNCHANGED <<overflow_checks, catvars, patvars, wrkvars, sensevars, world, records, fs,
                   dir_order, script,
                   uf,
                   all_deletions,
                   all_cats, loop_n, dl, gets, history>>

\* real_main, lines 485-486
Finish ==
    /\ pc = "delete" /\ loop_n > Len(all_deletions)
    /\ phases' = InPhase("message")
    /\ gui' = Append(gui, DoMessage("Update complete"))
    /\ outcome' = "success"
    /\ pc' = "done"
    /\ UNCHANGED <<overflow_checks, catvars, patvars, wrkvars, sensevars, world, records, fs,
                   dir_order, script,
                   uf,
                   all_deletions,
                   all_cats, loop_n, dl, gets, history>>

Next ==
    \/ Start
    \/ GetIndex
    \/ GetIndexFails
    \/ GetIndexBodyFails
    \/ ScriptStep
    \/ ScriptEnd
    \/ WalkFails
    \/ GetCatalog
    \/ GetCatalogFails
    \/ GetCatalogBodyFails
    \/ Differ
    \/ Trim
    \/ DlSkip
    \/ DlGet
    \/ DlGetFails
    \/ DlCreateFails
    \/ DlChunk
    \/ DlChunkFails
    \/ DlWriteFails
    \/ DlEnd
    \/ DlDone
    \/ DelStep
    \/ DelFails
    \/ Finish

Spec == Init /\ [][Next]_vars

-----------------------------------------------------------------------------
(* SpecRerun: the updater run again on the filesystem a run has left, with *)
(* a server whose content stays as it is.                                  *)

MaxRuns == 2

\* the indexes, catalogs and files of the servers
RerunIndex ==
    { Prologue \o <<CallInstall(T_cat), CallDeleteUnmatched(G_any)>>,
      Prologue \o <<CallDeleteUnmatched(T_ktree), CallInstall(T_cat)>>,
      Prologue \o <<DetectData, CallInstall(T_cat), CallBasedir("DATA"),
                    CallDeleteUnmatched(G_any)>> }

FixedServers ==
    { [index |-> <<s>>,
       cats |-> (T_cat :> EncodeCatalog(es)),
       files |-> (T_a :> b) @@ (T_ka :> T_hi) @@ (T_kb :> T_hj)] :
         s \in RerunIndex, es \in GoodLists, b \in FileBodies }

\* the filesystems the first run starts in
RerunFs ==
    { FsHome @@ a @@ k :
        a \in { <<>>, (<<T_h, T_a>> :> FileNode(T_hi)) },
        k \in { <<>>, (<<T_h, T_k>> :> DirNode) @@ (<<T_h, T_k, T_a>> :> FileNode(T_hi)) } }

InitRerun ==
    /\ overflow_checks = TRUE
    /\ CatIdle
    /\ pc = "start" /\ outcome = "running"
    /\ fs \in RerunFs
    /\ dir_order = "asc"
    /\ script = <<>> /\ uf = NewUpdateFinder
    /\ all_deletions = <<>> /\ all_cats = <<>>
    /\ loop_n = 0 /\ dl = NoDownload
    /\ gui = <<>> /\ gets = <<>>
    /\ joined = {} /\ examined = {} /\ written = {} /\ deleted = {} /\ verified = {}
    /\ bailed = FALSE /\ cat_invalid = FALSE /\ dl_bad = <<>> /\ trimmed = FALSE
    /\ phases = <<>>
    /\ install_calls = <<>> /\ cat_bodies = <<>> /\ io_failed = 0 /\ fetched = <<>>
    /\ fs_seen = <<>>
    /\ server \in FixedServers /\ earlier = <<>>
    /\ PatIdle
    /\ DifferIdle
    /\ SenseIdle

\* what a run leaves behind when it has ended or is stopped
Left ==
    [pc |-> pc, outcome |-> outcome, phases |-> phases, at |-> loop_n, cats |-> all_cats,
     fs |-> fs]

\* the process has ended, or is stopped while a file comes in, and the updater
\* is started again: nothing but the filesystem is kept
Restart ==
    /\ pc \in {"done", "body"}
    /\ Len(earlier) < MaxRuns - 1
    /\ earlier' = Append(earlier, Left)
    /\ pc' = "start" /\ outcome' = "running"
    /\ script' = <<>> /\ uf' = NewUpdateFinder
    /\ all_deletions' = <<>> /\ all_cats' = <<>>
    /\ loop_n' = 0 /\ dl' = NoDownload
    /\ gui' = <<>> /\ gets' = <<>>
    /\ joined' = {} /\ examined' = {} /\ written' = {} /\ deleted' = {} /\ verified' = {}
    /\ bailed' = FALSE /\ cat_invalid' = FALSE /\ dl_bad' = <<>> /\ trimmed' = FALSE
    /\ phases' = <<>>
    /\ install_calls' = <<>> /\ cat_bodies' = <<>> /\ io_failed' = 0 /\ fetched' = <<>>
    /\ fs_seen' = <<>>
    /\ UNCHANGED <<overflow_checks, catvars, patvars, wrkvars, sensevars, server, fs,
                   dir_order>>

NextRerun ==
    \/ Next
    \/ Restart

SpecRerun == InitRerun /\ [][NextRerun]_vars

-----------------------------------------------------------------------------
(* Claims on the run (checked under Spec).                                 *)

Entries == 1..Len(all_cats)

\* the file at the entry's dst_path has the entry's digest and length
Matches(fsys, cat) ==
    /\ IsFile(fsys, cat.dst_path)
    /\ Sha256(At(fsys, cat.dst_path).data) = cat.checksum
    /\ ToBe(Len(At(fsys, cat.dst_path).data), 8) = cat.size

C2_TrimmedListSparesEntries ==
    trimmed => \A j \in 1..Len(all_deletions) : \A i \in Entries :
                    ~IsPrefix(all_deletions[j], all_cats[i].dst_path)

\* trim_deletions has just run on a plan that held an ancestor of an entry,
\* an entry needs no download, and paths are left to delete
C2_Witness ==
    /\ trimmed /\ pc = "download" /\ loop_n = 1
    /\ all_deletions # <<>>
    /\ \E i \in Entries : ~all_cats[i].needs_download
    /\ LET plan == PlanDeletions(fs, dir_order, uf.deletes) IN
       /\ Len(all_deletions) < Len(plan)
       /\ \E j \in 1..Len(plan) : \E i \in Entries :
             plan[j] # all_cats[i].dst_path /\ IsPrefix(plan[j], all_cats[i].dst_path)

\* a download failed: the core reported a transport, status, write or
\* integrity error
DownloadFailed ==
    \E i \in 1..Len(gui) :
        gui[i] = DoError("Download failed") \/ gui[i] = DoError("Update failed")

\* C3: no path is deleted before every entry that needs a download has been
\* downloaded and verified, and after a failed download nothing is deleted.
C3_DeletionsAfterDownloads ==
    /\ deleted # {} => \A i \in Entries : all_cats[i].needs_download => i \in verified
    /\ DownloadFailed => deleted = {}

\* a successful run that downloaded two entries and then deleted a path
C3_Witness ==
    /\ pc = "done" /\ outcome = "success"
    /\ Cardinality(verified) = 2
    /\ deleted # {}

\* C4: when the body of a download ends with a digest other than
\* entry.checksum or a byte count other than entry.size, the corruption is
\* reported through do_error, the run ends with the failure code, and no later
\* entry is fetched.
C4_CorruptionAborts ==
    dl_bad # <<>> =>
        /\ pc = "done" /\ outcome = "failure"
        /\ gui # <<>> /\ gui[Len(gui)] = DoError("Update failed")
        /\ Len(gets) = dl_bad[1].at

\* a body with the right digest and the wrong length was refused while a later
\* entry still needed its download
C4_Witness ==
    /\ dl_bad # <<>>
    /\ Sha256(dl.recvd) = dl_bad[1].cat.checksum
    /\ ToBe(Len(dl.recvd), 8) # dl_bad[1].cat.size
    /\ loop_n < Len(all_cats)
    /\ all_cats[loop_n + 1].needs_download

\* the fishy predicate of the format: a text that starts with ".", "/" or
\* "\", or contains "/." or "\."
FishyText(t) ==
    \/ (t # <<>> /\ t[1] \in {Dot, Slash, Backslash})
    \/ \E i \in 1..(Len(t) - 1) : t[i] \in {Slash, Backslash} /\ t[i + 1] = Dot

\* a path below a registered directory whose components after that directory
\* do not start with "."
Confined(p) ==
    \E id \in DOMAIN uf.dirs :
        /\ IsPrefix(uf.dirs[id], p)
        /\ \A j \in (Len(uf.dirs[id]) + 1)..Len(p) : p[j] # <<>> /\ p[j][1] # Dot

\* C5: no fishy relative path of a catalog entry or of a cd argument is joined
\* to a base directory or a base URL, so no dst_path and no current base
\* directory holds a component that comes from one.
C5_NoFishyJoin ==
    /\ \A t \in joined : ~FishyText(t)
    /\ \A i \in Entries : Confined(all_cats[i].dst_path)
    /\ uf.basedir # <<>> => Confined(uf.basedir[1])

\* cd with a fishy argument was refused after a cd that was accepted
C5_Witness ==
    /\ pc = "done" /\ outcome = "failure"
    /\ script # <<>> /\ script[1].op = "cd" /\ FishyText(script[1].arg)
    /\ joined = {T_k}
    /\ uf.basedir = <<Home \o <<T_k>>>>

\* C8: a catalog that fails validation (stream, length, digest, malformed or
\* fishy entry) ends the run with failure before any local file is examined,
\* written or deleted, and no entry is ever downloaded.
C8_InvalidCatalogAborts ==
    cat_invalid =>
        /\ pc = "done" /\ outcome = "failure"
        /\ examined = {} /\ written = {} /\ deleted = {}
        /\ \A i \in 1..Len(gets) : gets[i].kind # "file"

\* C10: once the index script has called bail_out(), the core issues no
\* do_error, fetches no catalog, writes and deletes nothing, and the run ends
\* with the failure exit code.
C10_BailOutIsSilent ==
    bailed =>
        /\ \A i \in 1..Len(gui) : gui[i].call # "do_error"
        /\ \A i \in 1..Len(gets) : gets[i].kind = "index"
        /\ written = {} /\ deleted = {}
        /\ pc = "done" => outcome = "failure"

\* the core has issued a do_error
ErrorShown == \E i \in 1..Len(gui) : gui[i].call = "do_error"

\* C11: a run that ends with the failure exit code for a reason other than
\* bail_out() has had a do_error of the core before it ended, whatever the
\* error: configuration, transport, format, script, local I/O, integrity.
C11_FailureIsReported ==
    (pc = "done" /\ outcome = "failure" /\ ~bailed) => ErrorShown

\* every phase has run to its end without an error: the index was executed,
\* the catalogs decoded, the differ and the planning done, every entry that
\* needed it downloaded and verified, every path of the DeletionList handled
RunCompleted ==
    /\ script = <<>> /\ trimmed
    /\ ~ErrorShown /\ dl_bad = <<>>
    /\ \A i \in Entries : all_cats[i].needs_download => i \in verified
    /\ \A j \in 1..Len(all_deletions) : ~Exists(fs, all_deletions[j])

\* the do_message("Update complete") calls so far
Completions == { i \in 1..Len(gui) : gui[i] = DoMessage("Update complete") }

\* C12: the run returns the success exit code exactly when every phase
\* completed without error; "Update complete" is issued once in that case, as
\* the last thing the run does, and never in a run that does not succeed.
C12_SuccessIffCompleted ==
    /\ (outcome = "success") <=> (pc = "done" /\ RunCompleted)
    /\ Cardinality(Completions) = IF outcome = "success" THEN 1 ELSE 0
    /\ Completions # {} => (pc = "done" /\ Completions = {Len(gui)})

\* a successful run that skipped an entry, downloaded another and deleted a path
C12_Witness ==
    /\ outcome = "success" /\ gui = <<DoMessage("Update complete")>>
    /\ \E i \in Entries : ~all_cats[i].needs_download
    /\ verified # {} /\ deleted # {}

\* the place of a phase in the pipeline of the format
PhaseRank(ph) ==
    CASE ph = "index" -> 1
      [] ph = "catalogs" -> 2
      [] ph = "differ" -> 3
      [] ph = "planning" -> 4
      [] ph = "downloads" -> 5
      [] ph = "deletions" -> 6
      [] ph = "message" -> 7

\* C13: the phases run in the order index, catalogs, differ, deletion
\* planning, downloads, deletions, final message: nothing of a later phase
\* (the glob walk that builds the DeletionList included) happens before the
\* earlier phases have finished.
C13_PhasesInOrder ==
    \A i, j \in 1..Len(phases) : i < j => PhaseRank(phases[i]) <= PhaseRank(phases[j])

-----------------------------------------------------------------------------
(* SpecPatience: the gate of the progress display (src/src/patience.rs).   *)
(* Time is counted in milliseconds.                                        *)

UPDATE_INTERVAL == 200

MaxClock == 1200
MaxCalls == 3

\* how far the clock moves between two looks at it
ClockSteps == {100, 200, 1000}
ClockSetbacks == {100}

\* a single step in place of the loop
CatchUp_Once(lt, now) == lt + UPDATE_INTERVAL

RECURSIVE CatchUp(_, _)
\* while last_time < now { last_time += UPDATE_INTERVAL; }
CatchUp(lt, now) == IF lt < now THEN CatchUp(lt + UPDATE_INTERVAL, now) ELSE lt

\* the gate with the test of the lower threshold left out
have_been_patient_NoThreshold(lt, now) ==
    IF lt = <<>> THEN [ret |-> TRUE, last_time |-> <<now>>]
    ELSE IF now < lt[1] THEN [ret |-> TRUE, last_time |-> <<now>>]
    ELSE IF now - lt[1] >= UPDATE_INTERVAL * 5 THEN [ret |-> TRUE, last_time |-> <<now>>]
    ELSE [ret |-> TRUE, last_time |-> <<CatchUp(lt[1], now)>>]

\* Patience::have_been_patient on the field lt with Instant::now() = now: what it
\* returns and what it leaves in the field
have_been_patient(lt, now) ==
    IF lt = <<>> THEN [ret |-> TRUE, last_time |-> <<now>>]
    ELSE IF now < lt[1] THEN [ret |-> TRUE, last_time |-> <<now>>]
    ELSE IF now - lt[1] >= UPDATE_INTERVAL * 5 THEN [ret |-> TRUE, last_time |-> <<now>>]
    ELSE IF now - lt[1] >= UPDATE_INTERVAL
         THEN [ret |-> TRUE, last_time |-> <<CatchUp(lt[1], now)>>]
    ELSE [ret |-> FALSE, last_time |-> lt]

\* Patience::new()
InitPatience ==
    /\ overflow_checks = FALSE
    /\ CatIdle
    /\ RunIdle
    /\ clock \in 0..1
    /\ last_time = <<>>
    /\ calls = <<>>
    /\ DifferIdle
    /\ SenseIdle

ClockAdvance ==
    /\ \E d \in ClockSteps :
        /\ clock + d <= MaxClock
        /\ clock' = clock + d
    /\ UNCHANGED <<overflow_checks, catvars, runvars, wrkvars, sensevars, last_time, calls>>

ClockSetBack ==
    /\ \E d \in ClockSetbacks :
        /\ clock >= d
        /\ clock' = clock - d
    /\ UNCHANGED <<overflow_checks, catvars, runvars, wrkvars, sensevars, last_time, calls>>

Ask ==
    /\ Len(calls) < MaxCalls
    /\ last_time' = have_been_patient(last_time, clock).last_time
    /\ calls' = Append(calls, [at |-> clock, ret |-> have_been_patient(last_time, clock).ret,
                               last |-> have_been_patient(last_time, clock).last_time])
    /\ UNCHANGED <<overflow_checks, catvars, runvars, wrkvars, sensevars, clock>>

NextPatience == ClockAdvance \/ ClockSetBack \/ Ask

SpecPatience == InitPatience /\ [][NextPatience]_vars

\* the calls that returned true
Granted == { i \in 1..Len(calls) : calls[i].ret }
\* the second call that returned true, once there is one
SecondGranted ==
    CHOOSE i \in Granted : Cardinality({ j \in Granted : j < i }) = 1
\* the clock did not go backward between the looks up to call i
ForwardUntil(i) == \A j, k \in 1..i : j < k => calls[j].at <= calls[k].at

\* C14: the first call of a Patience value returns true, and when the clock has not
\* gone backward the second call that returns true comes at least UPDATE_INTERVAL
\* after the first.
C14_FirstGrantThenInterval ==
    /\ calls # <<>> => calls[1].ret
    /\ (Cardinality(Granted) >= 2 /\ ForwardUntil(SecondGranted))
          => calls[SecondGranted].at - calls[1].at >= UPDATE_INTERVAL

\* a refused call, then a granted one exactly UPDATE_INTERVAL after the first
C14_Witness ==
    /\ Len(calls) = 3
    /\ calls[1].ret /\ ~calls[2].ret /\ calls[3].ret
    /\ ForwardUntil(3)
    /\ calls[3].at - calls[1].at = UPDATE_INTERVAL

-----------------------------------------------------------------------------
(* The directory registry and the installs.                                *)

\* C15: an identifier of the registry is written at most once: no step of the
\* run changes or removes the path stored for a registered identifier.
C15_RegistryWriteOnce ==
    [][\A id \in DOMAIN uf.dirs : id \in DOMAIN uf'.dirs /\ uf'.dirs[id] = uf.dirs[id]]_vars

\* detect_dir has been called again for HOME with a candidate that would be
\* accepted, basedir("HOME") has followed, and the first path is the one stored
C15_Witness ==
    /\ pc = "script"
    /\ script = Tail(AfterDetectAgain)
    /\ uf.dirs = ("HOME" :> Home)
    /\ uf.basedir = <<Home>>

\* the entry lists a catalog builder may have encoded
BuiltLists == GoodLists \cup BadLists \cup {<<Entry(T_kb, T_hi, 2)>>}
Built == { [list |-> es, body |-> EncodeCatalog(es)] : es \in BuiltLists }
IsBuilt(body) == \E b \in Built : b.body = body
\* the entries of a catalog body in the order of the file
FileOrder(body) == (CHOOSE b \in Built : b.body = body).list

\* what the entries of catalog k come to, in file order
FromCatalog(k) ==
    LET es == FileOrder(cat_bodies[k])
        inst == uf.installs[k]
    IN [i \in 1..Len(es) |->
          [src_url |-> UrlJoin(inst.url, es[i].path),
           dst_path |-> PathJoin(inst.base_dir, es[i].path),
           checksum |-> es[i].checksum,
           size |-> es[i].size]]

RECURSIVE FromCatalogs(_)
FromCatalogs(k) == IF k = 0 THEN <<>> ELSE FromCatalogs(k - 1) \o FromCatalog(k)

\* the CatalogEntry list without the marks of the differ
Listed ==
    [i \in 1..Len(all_cats) |->
        [src_url |-> all_cats[i].src_url, dst_path |-> all_cats[i].dst_path,
         checksum |-> all_cats[i].checksum, size |-> all_cats[i].size]]

CatalogGets == SelectSeq(gets, LAMBDA g : g.kind = "catalog")
FileGets == SelectSeq(gets, LAMBDA g : g.kind = "file")

\* C16: the installs list is the successful install calls in call order, each with
\* the base directory current at its call; the catalogs are requested and their
\* entries collected install by install, in file order within a catalog; the
\* downloads are issued in the order of the collected list.
C16_InstallOrderKept ==
    /\ Len(uf.installs) = Len(install_calls)
    /\ \A i \in 1..Len(install_calls) :
          /\ uf.installs[i].base_dir = install_calls[i].basedir[1]
          /\ uf.installs[i].url = UrlJoin(IndexUrl, install_calls[i].target)
    /\ Len(CatalogGets) <= Len(uf.installs)
    /\ \A k \in 1..Len(CatalogGets) : CatalogGets[k].rel = uf.installs[k].url.rel
    /\ Len(cat_bodies) <= Len(CatalogGets)
    /\ \A k \in 1..Len(cat_bodies) : IsBuilt(cat_bodies[k])
    /\ Listed = FromCatalogs(Len(cat_bodies))
    /\ \A i, j \in 1..Len(fetched) : i < j => fetched[i] < fetched[j]
    /\ Len(FileGets) = Len(fetched)
    /\ \A i \in 1..Len(fetched) : FileGets[i].rel = all_cats[fetched[i]].src_url.rel

\* two installs under different base directories, a cd between them, two
\* catalogs with entries and a download from each
C16_Witness ==
    /\ outcome = "success"
    /\ Len(uf.installs) = 2
    /\ uf.installs[1].base_dir # uf.installs[2].base_dir
    /\ Len(FileOrder(cat_bodies[1])) = 2
    /\ Len(all_cats) = 3
    /\ Len(fetched) >= 2
    /\ fetched[1] = 1 /\ fetched[Len(fetched)] = 3

-----------------------------------------------------------------------------
(* The differ and the downloader.                                          *)

\* the file at the destination of the entry has its length and its digest
FileMatches(fsys, cat) ==
    /\ IsFile(fsys, cat.dst_path)
    /\ ToBe(Len(At(fsys, cat.dst_path).data), 8) = cat.size
    /\ Sha256(At(fsys, cat.dst_path).data) = cat.checksum

\* C17: when the differ has returned, an entry is not marked for download exactly
\* when its file was read without an I/O error and has the length and the SHA-256
\* of the entry; the differ reports no error and the run goes on.
C17_DifferMarksExactly ==
    pc = "trim" =>
        /\ \A i \in Entries :
              ~all_cats[i].needs_download <=> (i # io_failed /\ FileMatches(fs, all_cats[i]))
        /\ outcome = "running"
        /\ ~ErrorShown

\* a file that matches but met an I/O error is marked, one that matches and was
\* read is not
C17_Witness ==
    /\ pc = "trim"
    /\ Len(all_cats) = 2
    /\ io_failed = 1
    /\ FileMatches(fs, all_cats[1]) /\ all_cats[1].needs_download
    /\ FileMatches(fs, all_cats[2]) /\ ~all_cats[2].needs_download

\* the entries a GET was issued for
Fetched == { fetched[k] : k \in 1..Len(fetched) }

\* the downloader has gone through the whole list
DownloadsDone == pc = "delete" \/ outcome = "success"

\* GETs go to entries marked for download, to each at most once, none of them
\* is passed over, and an entry is verified before the next GET is issued
FetchesMarkedInTurn ==
    /\ \A i \in Fetched : all_cats[i].needs_download
    /\ Cardinality(Fetched) = Len(fetched)
    /\ \A i \in Entries, j \in Fetched : (i < j /\ all_cats[i].needs_download) => i \in Fetched
    /\ DownloadsDone => \A i \in Entries : all_cats[i].needs_download => i \in Fetched
    /\ \A k \in 1..(Len(fetched) - 1) : fetched[k] \in verified
    /\ (pc = "download" /\ fetched # <<>>) => fetched[Len(fetched)] \in verified

\* C18 as stated: GETs go to exactly the entries marked for download, one at a
\* time, and never to an entry whose local file has the size and the digest of the
\* entry.
C18_NoGetForMatchingFile ==
    /\ FetchesMarkedInTurn
    /\ \A i \in Fetched : ~FileMatches(fs_seen, all_cats[i])

\* C18: GETs go to exactly the entries marked for download, one at a time, and
\* never to an entry whose local file the differ read without error and found to
\* have the size and the digest of the entry.
C18_NoGetForFileFoundMatching ==
    /\ FetchesMarkedInTurn
    /\ \A i \in Fetched : ~(i # io_failed /\ FileMatches(fs_seen, all_cats[i]))

\* of two entries the first is up to date and gets no GET, the second is
\* fetched and verified
C18_Witness ==
    /\ outcome = "success"
    /\ Len(all_cats) = 2
    /\ io_failed = 0
    /\ FileMatches(fs_seen, all_cats[1])
    /\ fetched = <<2>>
    /\ verified = {2}

\* the step in which the GET for an entry fails: the request is made and
\* "Download failed" is reported
GetFailedStep ==
    /\ fetched' = Append(fetched, loop_n)
    /\ gui' = Append(gui, DoError("Download failed"))

\* C19: when the GET for an entry returns another status than 200 or fails, the
\* error is reported, the run fails, no file or directory is created or truncated,
\* and no request follows.
C19_FailedGetEndsRun ==
    [][/\ GetFailedStep => (fs' = fs /\ written' = written /\ pc' = "done"
                                     /\ outcome' = "failure")
       /\ (pc = "done" /\ ErrorShown) => (gets' = gets /\ fetched' = fetched /\ fs' = fs)]_vars

\* the GET for the first of two marked entries has failed: its old file is as it
\* was, the second entry has not been asked for
C19_Witness ==
    /\ pc = "done" /\ outcome = "failure"
    /\ gui = <<DoError("Download failed")>>
    /\ Len(all_cats) = 2
    /\ fetched = <<1>>
    /\ all_cats[2].needs_download
    /\ IsFile(fs, all_cats[1].dst_path)
    /\ fs[all_cats[1].dst_path].data # <<>>
    /\ fs = fs_seen

-----------------------------------------------------------------------------
(* SpecDiffer: the workers of find_cat_statuses (main.rs 257-264).  The    *)
(* closure runs once per entry, on any thread of the pool; the counter is  *)
(* an AtomicUsize, every access to it is one step.                         *)

NumWorkers == 2
MaxCats == 3

Workers == 1..NumWorkers

Rest ==
    [at |-> "rest", entry |-> 0, progn |-> 0, testn |-> 0, latest |-> FALSE,
     reported |-> FALSE]

\* the entries and the filesystems of the differ runs
DifferCat(i) ==
    [dst_path |-> IF i % 2 = 1 THEN <<T_h, T_a>> ELSE <<T_h, T_b>>,
     checksum |-> IF i <= 2 THEN Sha256(T_hi) ELSE Sha256(T_hj),
     size |-> ToBe(2, 8),
     needs_download |-> FALSE]
DifferDisks ==
    { FsHome @@ (<<T_h, T_a>> :> FileNode(T_hi)) @@ (<<T_h, T_b>> :> FileNode(T_hi)),
      FsHome @@ (<<T_h, T_a>> :> FileNode(T_hj)),
      FsHome @@ (<<T_h, T_a>> :> DirNode) @@ (<<T_h, T_b>> :> FileNode(T_h1)) }

\* let n = AtomicUsize::new(0); let num_cats = all_cats.len();
InitDiffer ==
    /\ overflow_checks = FALSE
    /\ CatIdle
    /\ RunIdle
    /\ PatIdle
    /\ SenseIdle
    /\ num_cats \in 0..MaxCats
    /\ todo = 1..num_cats
    /\ ctr = 0
    /\ wk = [w \in Workers |-> Rest]
    /\ updates = <<>>
    /\ cat_list = [i \in 1..num_cats |-> DifferCat(i)]
    /\ disk \in DifferDisks
    /\ faulty \in 0..Min(1, num_cats)
    /\ pass = 1

\* let progn = n.fetch_add(1, SeqCst): the worker is given an entry, adds one to
\* the counter and keeps the value the counter had
FetchAdd(w) ==
    /\ wk[w].at = "rest"
    /\ \E e \in todo :
          /\ todo' = todo \ {e}
          /\ wk' = [wk EXCEPT ![w] = [Rest EXCEPT !.at = "load", !.entry = e, !.progn = ctr]]
    /\ ctr' = ctr + 1
    /\ UNCHANGED <<overflow_checks, catvars, runvars, patvars, sensevars, num_cats, updates,
                   cat_list,
                   disk, faulty, pass>>

\* let testn = n.load(SeqCst)
Load(w) ==
    /\ wk[w].at = "load"
    /\ wk' = [wk EXCEPT ![w].at = "test", ![w].testn = ctr,
                        ![w].latest = (ctr = wk[w].progn + 1)]
    /\ UNCHANGED <<overflow_checks, catvars, runvars, patvars, sensevars, num_cats, todo, ctr,
                   updates,
                   cat_list, disk, faulty, pass>>

\* a test that holds when the load finds the counter as this worker left it
Unpassed_AfterOwn(progn, testn) == testn = progn + 1

\* the test of line 262
Unpassed(progn, testn) == testn = progn

\* the entries whose closure has returned
Examined == num_cats - Cardinality(todo) - Cardinality({ v \in Workers : wk[v].at # "rest" })

\* if testn == progn { set_progress(.., testn / num_cats) }
Test(w) ==
    /\ wk[w].at = "test"
    /\ IF Unpassed(wk[w].progn, wk[w].testn)
       THEN /\ updates' = Append(updates, [completed |-> wk[w].testn, total |-> num_cats,
                                           examined |-> Examined])
            /\ wk' = [wk EXCEPT ![w].at = "examine", ![w].reported = TRUE]
       ELSE /\ updates' = updates
            /\ wk' = [wk EXCEPT ![w].at = "examine"]
    /\ UNCHANGED <<overflow_checks, catvars, runvars, patvars, sensevars, num_cats, todo, ctr,
                   cat_list,
                   disk, faulty, pass>>

\* a closure that writes to the entry numbered by the counter
Slot_ByCounter(e, progn) == progn + 1

\* the entry the closure holds: the |cat| of par_iter_mut().for_each
Slot(e, progn) == e

\* cat.needs_download = true, lines 272, 281, 291, 306 and 318
Marked(cs, e, needs) == IF needs THEN [cs EXCEPT ![e].needs_download = TRUE] ELSE cs

\* the rest of the closure, lines 265-320: the file of the entry is examined
Examine(w) ==
    /\ wk[w].at = "examine"
    /\ wk' = [wk EXCEPT ![w] = Rest]
    /\ cat_list' = Marked(cat_list, Slot(wk[w].entry, wk[w].progn),
                          NeedsDownload(disk, cat_list[wk[w].entry], wk[w].entry = faulty))
    /\ UNCHANGED <<overflow_checks, catvars, runvars, patvars, sensevars, num_cats, todo, ctr,
                   updates,
                   disk, faulty, pass>>

\* for_each has returned
DifferOver == todo = {} /\ \A w \in Workers : wk[w].at = "rest"

\* find_cat_statuses is called again on the same filesystem, with the list as
\* the first run left it or with a list parsed anew
Again ==
    /\ pass = 1 /\ DifferOver /\ num_cats > 0
    /\ pass' = 2
    /\ todo' = 1..num_cats
    /\ ctr' = 0
    /\ cat_list' \in {cat_list, [i \in 1..num_cats |-> DifferCat(i)]}
    /\ UNCHANGED <<overflow_checks, catvars, runvars, patvars, sensevars, num_cats, wk,
                   updates, disk,
                   faulty>>

NextDiffer ==
    \/ \E w \in Workers : FetchAdd(w) \/ Load(w) \/ Test(w) \/ Examine(w)
    \/ Again

SpecDiffer == InitDiffer /\ [][NextDiffer]_vars

\* C20: a worker whose load shows that no other worker has added to the counter
\* since its own fetch-and-add calls set_progress with completed/total, so a differ
\* run over at least one entry issues at least one progress update of a worker.
C20_LatestWorkerReports ==
    /\ \A w \in Workers :
          (wk[w].at = "examine" /\ wk[w].latest) =>
              /\ wk[w].reported
              /\ updates # <<>>
              /\ updates[Len(updates)].total = num_cats
    /\ (DifferOver /\ num_cats >= 1) => updates # <<>>

\* what the code does: no worker ever calls set_progress
DifferNeverReports == updates = <<>>

\* the set_progress calls of the differ phase: Some(0.0) of line 254, then the
\* calls of the workers
Shown == <<[completed |-> 0, total |-> 1, examined |-> 0]>> \o updates

\* C21: in every interleaving of the workers the fractions passed to set_progress
\* in the differ phase never decrease, and the fraction 1.0 is passed only when
\* every entry has been processed.
C21_FractionsNeverDecrease ==
    /\ \A i, j \in 1..Len(Shown) :
          i < j => Shown[i].completed * Shown[j].total <= Shown[j].completed * Shown[i].total
    /\ \A i \in 1..Len(Shown) :
          Shown[i].completed = Shown[i].total => Shown[i].examined = num_cats

\* two workers have gone through three entries, one overtaking the other between
\* its fetch-and-add and its test
C21_Witness ==
    /\ num_cats = 3 /\ todo = {}
    /\ wk[1].at = "test" /\ wk[1].progn = 1 /\ wk[1].testn = 3
    /\ wk[2].at = "examine" /\ wk[2].progn = 2
    /\ Len(Shown) >= 1

\* the flags a differ run has to leave: a function of the entries, the files and
\* the I/O errors alone
FlagsDue == [i \in 1..num_cats |-> NeedsDownload(disk, cat_list[i], i = faulty)]
Flags(cs) == [i \in 1..Len(cs) |-> cs[i].needs_download]
\* cs and ds differ at most in the flag of entry e, which may have been set
OnlyMarked(cs, ds, e) ==
    /\ Len(ds) = Len(cs)
    /\ \A i \in 1..Len(cs) :
          \/ ds[i] = cs[i]
          \/ i = e /\ ds[i] = [cs[i] EXCEPT !.needs_download = TRUE]

\* C22: a worker writes nothing but the needs_download flag of the entry it holds
\* and no step of the differ changes the filesystem; when the differ has returned
\* the flags are the ones due, whatever the interleaving and the number of
\* workers that took part, in a first run and in a repeated one.
C22_DifferOwnsItsEntry ==
    [][/\ disk' = disk
       /\ pass' = pass =>
             \/ cat_list' = cat_list
             \/ \E w \in Workers :
                   /\ wk[w].at = "examine" /\ wk'[w].at = "rest"
                   /\ OnlyMarked(cat_list, cat_list', wk[w].entry)
       /\ DifferOver' => Flags(cat_list') = FlagsDue']_vars

\* a repeated run over three entries has returned, with an I/O error at the
\* first, a file that matches for the second and one that differs for the third
C22_Witness ==
    /\ pass = 2 /\ DifferOver
    /\ num_cats = 3
    /\ faulty = 1
    /\ FileMatches(disk, cat_list[1]) /\ FileMatches(disk, cat_list[2])
    /\ Flags(cat_list) = <<TRUE, FALSE, TRUE>>

-----------------------------------------------------------------------------
(* The gate under calls at any times.                                      *)

\* the clock did not go backward between the looks of the calls made
Forward == ForwardUntil(Len(calls))

\* C23: when the clock has not gone backward, two calls that return true with no
\* such call between them are at least UPDATE_INTERVAL apart.
C23_GrantsAnIntervalApart ==
    Forward =>
        \A i, j \in Granted :
            i < j => calls[j].at - calls[i].at >= UPDATE_INTERVAL

\* C24: when the clock has not gone backward, last_time after a call is not later
\* than the time of the call, and no call finds now < last_time.
C24_LastTimeNotAhead ==
    Forward =>
        /\ \A j \in 1..Len(calls) : calls[j].last[1] <= calls[j].at
        /\ \A j \in 2..Len(calls) : ~(calls[j].at < calls[j - 1].last[1])

\* the least number of intervals that takes lt to now or beyond
StepsToReach(lt, now) ==
    CHOOSE k \in 0..5 :
        /\ lt + k * UPDATE_INTERVAL >= now
        /\ \A h \in 0..(k - 1) : lt + h * UPDATE_INTERVAL < now

\* what call j has to return and to leave in last_time, given what the call
\* before it left there
DueAt(j) ==
    LET lt == calls[j - 1].last[1]
        d == calls[j].at - lt
    IN  IF d >= 5 * UPDATE_INTERVAL THEN [ret |-> TRUE, last |-> <<calls[j].at>>]
        ELSE IF d >= UPDATE_INTERVAL
        THEN [ret |-> TRUE, last |-> <<lt + StepsToReach(lt, calls[j].at) * UPDATE_INTERVAL>>]
        ELSE [ret |-> FALSE, last |-> <<lt>>]

\* C25: a call with last_time recorded and d = now - last_time >= 0 returns true
\* and records now if d >= 5 * UPDATE_INTERVAL; returns true and records last_time
\* plus the least multiple of UPDATE_INTERVAL that reaches now if
\* UPDATE_INTERVAL <= d < 5 * UPDATE_INTERVAL; returns false and records nothing
\* if d < UPDATE_INTERVAL.
C25_GateByDifference ==
    \A j \in 2..Len(calls) :
        calls[j].at >= calls[j - 1].last[1] =>
            /\ calls[j].ret = DueAt(j).ret
            /\ calls[j].last = DueAt(j).last

\* a call 300 ms after the first one is granted and moves last_time by two
\* intervals, past the time of the call; a later call is refused
C25_Witness ==
    /\ Len(calls) = 3
    /\ calls[2].at - calls[1].at = 300
    /\ calls[2].ret
    /\ calls[2].last[1] = calls[1].at + 2 * UPDATE_INTERVAL
    /\ calls[3].at >= calls[2].last[1]
    /\ ~calls[3].ret

-----------------------------------------------------------------------------
(* The primitives of the index, call by call.                              *)

\* a statement of the index is about to run
AtCall(op) == pc = "script" /\ script # <<>> /\ script[1].op = op
\* the statement has returned without an error
Went == pc' = "script" /\ script' = Tail(script)
\* the statement has ended the index with a Lua error
Broke == pc' = "done" /\ outcome' = "failure"

\* what detect_dir is offered, in order: the value of the environment variable,
\* if set, then what the iterator yields or does
Offered(c) == (IF c.env # <<>> THEN <<Yield(c.env[1])>> ELSE <<>>) \o c.cands

\* the verdict on one offer: "accept", "reject" or "error"
Judged(item, silhouette) ==
    IF ~item.yield \/ ~IsAbsolute(item.text) THEN "error"
    ELSE IF \E g \in 1..Len(silhouette) :
                sense(fs, dir_order, PathJoin(Root, item.text), silhouette[g]) = "err"
    THEN "error"
    ELSE IF \A g \in 1..Len(silhouette) :
                sense(fs, dir_order, PathJoin(Root, item.text), silhouette[g]) = "true"
    THEN "accept"
    ELSE "reject"

\* the offers accepted after nothing but rejected ones
FirstAccepted(c) ==
    { k \in 1..Len(Offered(c)) :
        /\ Judged(Offered(c)[k], c.silhouette) = "accept"
        /\ \A h \in 1..(k - 1) : Judged(Offered(c)[h], c.silhouette) = "reject" }
NoneAccepted(c) ==
    \A k \in 1..Len(Offered(c)) : Judged(Offered(c)[k], c.silhouette) = "reject"

\* C26: detect_dir on an unregistered id judges the environment variable first
\* and then the candidates in the order of the iterator; it registers the first
\* path accepted and asks for no further candidate; when none is accepted the id
\* stays unregistered and a basedir(id) that follows fails.
C26_FirstAcceptedIsRegistered ==
    [][/\ (AtCall("detect_dir") /\ script[1].id \notin DOMAIN uf.dirs) =>
             /\ \A k \in FirstAccepted(script[1]) :
                   /\ Went
                   /\ uf'.dirs = (script[1].id :> PathJoin(Root, Offered(script[1])[k].text))
                                    @@ uf.dirs
             /\ NoneAccepted(script[1]) => (Went /\ uf'.dirs = uf.dirs)
       /\ (AtCall("basedir") /\ script[1].id \notin DOMAIN uf.dirs) =>
             (Broke /\ uf' = uf)]_vars

\* the second candidate has been accepted after the first was rejected, and the
\* iterator, which would have bailed out, was not resumed
C26_Witness ==
    /\ pc = "script"
    /\ script = AfterDetectSecond
    /\ uf.dirs = ("HOME" :> Home)
    /\ ~bailed

\* C27: every path of the registry is absolute, and so are the current base
\* directory, the base_dir of every install, every key of deletes and the
\* dst_path of every CatalogEntry, whatever calls the index has made.
C27_PathsAreAbsolute ==
    /\ \A id \in DOMAIN uf.dirs : IsAbsolutePath(uf.dirs[id])
    /\ uf.basedir # <<>> => IsAbsolutePath(uf.basedir[1])
    /\ \A i \in 1..Len(uf.installs) : IsAbsolutePath(uf.installs[i].base_dir)
    /\ \A base \in DOMAIN uf.deletes : IsAbsolutePath(base)
    /\ \A i \in Entries : IsAbsolutePath(all_cats[i].dst_path)

\* basedir, delete_unmatched, cd, install and delete_unmatched again have run
\* and the catalog has been read
C27_Witness ==
    /\ pc = "trim"
    /\ uf.dirs = ("HOME" :> Home)
    /\ uf.basedir = <<Home \o <<T_k>>>>
    /\ DOMAIN uf.deletes = {Home, Home \o <<T_k>>}
    /\ Len(uf.installs) = 1
    /\ Len(all_cats) = 2

\* the calls that change the finder when they succeed
Setters == {"basedir", "cd", "install", "delete_unmatched"}

\* C28: basedir(id) fails when id is not registered, cd(rel) fails when rel is
\* fishy or no base directory is set, and a basedir, cd, install or
\* delete_unmatched call that fails leaves the registry, the base directory,
\* installs and deletes as they were.
C28_FailedCallChangesNothing ==
    [][/\ (AtCall("basedir") /\ script[1].id \notin DOMAIN uf.dirs) => Broke
       /\ (AtCall("cd") /\ (is_fishy_path(script[1].arg) \/ uf.basedir = <<>>)) => Broke
       /\ (\E op \in Setters : AtCall(op) /\ Broke) => uf' = uf]_vars

\* a fishy cd has failed after an install and a delete_unmatched were recorded
C28_Witness ==
    /\ pc = "done" /\ outcome = "failure"
    /\ script = <<CallCd(T_up)>>
    /\ uf.basedir = <<Home>>
    /\ Len(uf.installs) = 1
    /\ DOMAIN uf.deletes = {Home}

\* a glob delete_unmatched may keep
Keepable(glob) ==
    /\ GlobValid(glob)
    /\ ~GlobHasRoot(glob)
    /\ ~GlobHasSemantic(glob)
    /\ ~(glob # <<>> /\ glob[Len(glob)] = Slash)

StoredGlobsKeepable ==
    \A base \in DOMAIN uf.deletes :
        \A i \in 1..Len(uf.deletes[base]) : Keepable(uf.deletes[base][i])

\* the globs recorded for a base directory, none if it has no list
GlobsOf(deletes, base) == IF base \in DOMAIN deletes THEN deletes[base] ELSE <<>>

\* C29: every glob in deletes is valid, not rooted, without semantic component and
\* without "/" at its end; delete_unmatched appends an accepted glob to the list
\* of the base directory current at the call and stores no rejected one, so that
\* parsing the stored globs again in determine_tasks does not fail.
C29_StoredGlobsAreChecked ==
    [][/\ StoredGlobsKeepable'
       /\ AtCall("delete_unmatched") =>
             IF Keepable(script[1].arg) /\ uf.basedir # <<>>
             THEN /\ Went
                  /\ DOMAIN uf'.deletes = DOMAIN uf.deletes \cup {uf.basedir[1]}
                  /\ \A base \in DOMAIN uf'.deletes :
                        uf'.deletes[base] =
                            IF base = uf.basedir[1]
                            THEN Append(GlobsOf(uf.deletes, base), script[1].arg)
                            ELSE uf.deletes[base]
             ELSE Broke /\ uf'.deletes = uf.deletes
       /\ (pc = "script" /\ script = <<>>) => outcome' # "panic"]_vars

\* two globs are on the lists of two base directories and have been walked
C29_Witness ==
    /\ pc = "catalogs"
    /\ uf.deletes = (Home :> <<G_any>>) @@ (Home \o <<T_k>> :> <<G_any>>)
    /\ all_deletions # <<>>

-----------------------------------------------------------------------------
(* SpecSense: sense (update_finder.rs 23-45) on the filesystems of the     *)
(* runs, from several anchors, in both listing orders.                     *)

T_adir == <<97, Slash>>                     \* "a/"
T_anydir == <<Star, Slash>>                 \* "*/"
T_treedir == <<107, Slash, Star, Star, Slash>>  \* "k/**/"

SenseGlobs ==
    { T_a, T_adir, G_any, T_anydir, G_tree, T_ka, T_kdir, T_ktree, T_treedir,
      T_home, T_up, <<LBracket>> }
SenseAnchors == { Root, Home, Home \o <<T_k>>, Home \o <<T_b>> }

InitSense ==
    /\ overflow_checks = FALSE
    /\ CatIdle
    /\ PatIdle
    /\ DifferIdle
    /\ pc = "idle" /\ outcome = "running"
    /\ fs \in InitFs
    /\ dir_order \in {"asc", "desc"}
    /\ script = <<>> /\ uf = NewUpdateFinder
    /\ all_deletions = <<>> /\ all_cats = <<>>
    /\ loop_n = 0 /\ dl = NoDownload
    /\ gui = <<>> /\ gets = <<>>
    /\ joined = {} /\ examined = {} /\ written = {} /\ deleted = {} /\ verified = {}
    /\ bailed = FALSE /\ cat_invalid = FALSE /\ dl_bad = <<>> /\ trimmed = FALSE
    /\ phases = <<>>
    /\ install_calls = <<>> /\ cat_bodies = <<>> /\ io_failed = 0 /\ fetched = <<>>
    /\ fs_seen = <<>>
    /\ server = AnyServer /\ earlier = <<>>
    /\ probe \in [anchor : SenseAnchors, srcglob : SenseGlobs]
    /\ sensed = "none"

\* sense(anchor, srcglob) is called
Sense ==
    /\ sensed = "none"
    /\ sensed' = sense(fs, dir_order, probe.anchor, probe.srcglob)
    /\ UNCHANGED <<overflow_checks, catvars, runvars, patvars, wrkvars, probe>>

NextSense == Sense

SpecSense == InitSense /\ [][NextSense]_vars

\* the glob of the probe without the "/" that asks for a directory
WantsDir == probe.srcglob # <<>> /\ probe.srcglob[Len(probe.srcglob)] = Slash
ProbeGlob ==
    IF WantsDir THEN Take(probe.srcglob, Len(probe.srcglob) - 1) ELSE probe.srcglob
Forbidden == ~GlobValid(ProbeGlob) \/ GlobHasRoot(ProbeGlob) \/ GlobHasSemantic(ProbeGlob)

\* what the walk under the anchor matches, and what it meets first
Matches30 == Walk(fs, probe.anchor, ProbeGlob)
FirstMatches == { p \in Matches30 : \A q \in Matches30 : q # p => WalkBefore(dir_order, p, q) }

\* C30: sense returns true exactly when the walk under the anchor has a first
\* match and that match is a directory for a glob that ended with "/" and no
\* directory otherwise; it returns false when nothing matches or the first match
\* is of the other kind, whatever comes later; a rooted or semantic glob raises
\* an error.
C30_FirstMatchDecides ==
    sensed # "none" =>
        /\ (GlobHasRoot(ProbeGlob) \/ GlobHasSemantic(ProbeGlob)) => sensed = "err"
        /\ ~Forbidden =>
              /\ sensed \in {"true", "false"}
              /\ sensed = "true" <=> \E p \in FirstMatches : IsDir(fs, p) = WantsDir
              /\ Matches30 = {} => sensed = "false"

\* sense has returned false for "*/" although a directory matches: the first
\* match is a file
C30_Witness ==
    /\ probe = [anchor |-> Home, srcglob |-> T_anydir]
    /\ sensed = "false"
    /\ \E p \in FirstMatches : IsFile(fs, p)
    /\ \E q \in Matches30 : IsDir(fs, q)


-----------------------------------------------------------------------------
(* Errors of the index (checked under Spec).                               *)

\* the error the statement raises, whether the script catches it or not, and
\* the error exec() ends with
RaisedBy(c) ==
    IF c.op = "raise" THEN LuaError("script")
    ELSE Primitive(uf, fs, dir_order, Unprotected(c)).err
EndedWith(c) == Statement(uf, fs, dir_order, c).err
NotBailOut(e) == e # LuaOk /\ e[1].root # "bail"

\* find_updates fails with one do_error("Lua error"); nothing but the index
\* has been requested, no file has been touched, and the run is over
ScriptFailure ==
    /\ gui' = Append(gui, DoError("Lua error"))
    /\ \A i \in 1..Len(gui) : gui[i].call # "do_error"
    /\ Broke
    /\ \A i \in 1..Len(gets') : gets'[i].kind = "index"
    /\ fs' = fs /\ written' = {} /\ deleted' = {} /\ examined' = {}

\* C31 as stated: any error raised while the index executes, other than the
\* bail_out sentinel, is reported by one do_error titled "Lua error", and the
\* run ends with the failure exit code, no catalog fetched, no file touched.
C31_AnyErrorIsReported ==
    [][(pc = "script" /\ script # <<>> /\ NotBailOut(RaisedBy(script[1]))) => ScriptFailure]_vars

\* C31, amended: any error other than the bail_out sentinel that ends the
\* execution of the index (that the script does not catch with pcall) is
\* reported by one do_error titled "Lua error", and the run ends with the
\* failure exit code, no catalog fetched, no file touched.
C31_UncaughtErrorIsReported ==
    [][(pc = "script" /\ script # <<>> /\ NotBailOut(EndedWith(script[1]))) => ScriptFailure]_vars

\* an invalid delete glob has ended the index after an install was recorded
C31_Witness ==
    /\ pc = "done" /\ outcome = "failure"
    /\ script = <<CallDeleteUnmatched(<<LBracket>>)>>
    /\ NotBailOut(EndedWith(script[1]))
    /\ gui = <<DoError("Lua error")>>
    /\ Len(gets) = 1 /\ Len(uf.installs) = 1

-----------------------------------------------------------------------------
(* The DeletionList (checked under Spec).                                  *)

StrictlyIncreasing(list) == \A i \in 1..(Len(list) - 1) : PathLess(list[i], list[i + 1])

Range(list) == { list[i] : i \in 1..Len(list) }

\* the lists trim_deletions passes through: before and after each lookup
RECURSIVE PathStages(_, _, _)
PathStages(dels, dis, next) ==
    IF dis = Root THEN {dels, next}
    ELSE {dels} \cup PathStages(next, Parent(dis),
                                TrimOne(next, BinarySearch(next, Parent(dis), 0, Len(next))))

RECURSIVE TrimStages(_, _)
TrimStages(cats, dels) ==
    IF cats = <<>> THEN {dels}
    ELSE PathStages(dels, cats[1].dst_path,
                    TrimOne(dels, BinarySearch(dels, cats[1].dst_path, 0, Len(dels))))
            \cup TrimStages(Tail(cats), TrimPath(dels, cats[1].dst_path))

\* the paths trim_deletions looks up: each dst_path and each of its ancestors
LookedUp ==
    UNION { { Take(all_cats[i].dst_path, k) : k \in 0..Len(all_cats[i].dst_path) } :
                i \in Entries }

\* the binary search finds the path exactly when the list holds it
SearchFinds(list, target) ==
    IF target \in Range(list)
    THEN list[BinarySearch(list, target, 0, Len(list))] = target
    ELSE BinarySearch(list, target, 0, Len(list)) = 0

\* C32: the DeletionList is strictly increasing in path order after planning
\* and after every removal of trim_deletions, and on each of these lists the
\* binary search finds a looked-up path exactly when the list holds it.
C32_DeletionListStrictlyIncreasing ==
    /\ StrictlyIncreasing(all_deletions)
    /\ pc = "trim" =>
          /\ all_deletions = PlanDeletions(fs, dir_order, uf.deletes)
          /\ trim_deletions(all_cats, all_deletions) \in TrimStages(all_cats, all_deletions)
          /\ \A list \in TrimStages(all_cats, all_deletions) :
                /\ StrictlyIncreasing(list)
                /\ \A target \in LookedUp \cup Range(all_deletions) : SearchFinds(list, target)

\* two globs have yielded the directory k, the walk came in descending order,
\* and trim_deletions has removed paths from a list of several
C32_Witness ==
    /\ pc = "download" /\ loop_n = 1 /\ trimmed
    /\ dir_order = "desc"
    /\ Len(WalkBases(fs_seen, dir_order, uf.deletes, DOMAIN uf.deletes))
          > Len(PlanDeletions(fs_seen, dir_order, uf.deletes))
    /\ Len(PlanDeletions(fs_seen, dir_order, uf.deletes)) >= 3
    /\ Len(all_deletions) >= 1
    /\ Len(all_deletions) < Len(PlanDeletions(fs_seen, dir_order, uf.deletes))

-----------------------------------------------------------------------------
(* The deletion executor (checked under Spec).                             *)

\* the path perform_deletions is at
AtDeletion == pc = "delete" /\ loop_n <= Len(all_deletions)

\* C33: perform_deletions takes the paths of the DeletionList in order; a path
\* that is not there (any more) is passed over without an error and without a
\* change, a path that is there is gone after its turn, and when the run ends
\* with success no path of the trimmed DeletionList exists.
C33_DeletionsInOrder ==
    [][/\ (AtDeletion /\ ~Exists(fs, all_deletions[loop_n])) =>
             /\ pc' = "delete" /\ loop_n' = loop_n + 1
             /\ fs' = fs /\ gui' = gui /\ deleted' = deleted
       /\ (AtDeletion /\ pc' = "delete") =>
             /\ loop_n' = loop_n + 1
             /\ all_deletions' = all_deletions
             /\ \A j \in 1..loop_n : ~Exists(fs', all_deletions[j])
             /\ DOMAIN fs' = { q \in DOMAIN fs : ~IsPrefix(Real(fs, all_deletions[loop_n]), q) }
       /\ (pc = "delete" /\ outcome' = "success") =>
             /\ loop_n = Len(all_deletions) + 1
             /\ fs' = fs
             /\ \A j \in 1..Len(all_deletions) : ~Exists(fs', all_deletions[j])]_vars

\* a run has ended with success after the directory k was removed with what
\* was in it, and a path below k that stood later in the list was passed over
C33_Witness ==
    /\ pc = "done" /\ outcome = "success"
    /\ \E j \in 1..Len(all_deletions) : \E k \in (j + 1)..Len(all_deletions) :
          /\ IsPrefix(all_deletions[j], all_deletions[k])
          /\ ~HasDotDot(all_deletions[k])
          /\ all_deletions[j] \in deleted
          /\ all_deletions[k] \notin deleted
          /\ Exists(fs_seen, all_deletions[k])

\* C34: when the run ends with the success exit code a file exists at the
\* dst_path of every CatalogEntry, and nothing the executor removed is an
\* install target or a directory above one, so that none is lost through a
\* recursive removal either.
C34_InstallTargetsSurvive ==
    /\ \A d \in deleted : \A i \in Entries : ~IsPrefix(d, Real(fs_seen, all_cats[i].dst_path))
    /\ (pc = "done" /\ outcome = "success") =>
          \A i \in Entries : IsFile(fs, all_cats[i].dst_path)

-----------------------------------------------------------------------------
(* The next run (checked under SpecRerun).                                 *)

\* the run before this one
Prev == earlier[Len(earlier)]
PrevEntries == 1..(IF earlier = <<>> THEN 0 ELSE Len(Prev.cats))

\* the run before stopped or failed in perform_downloads at entry k and left a
\* file at the entry's dst_path that is not the entry's: too short, too long
\* or of another digest
BrokenOff(k) ==
    /\ Prev.outcome # "success"
    /\ Prev.phases # <<>> /\ Prev.phases[Len(Prev.phases)] = "downloads"
    /\ Prev.pc \in {"body", "done"}
    /\ Prev.at = k
    /\ IsFile(Prev.fs, Prev.cats[k].dst_path)
    /\ ~Matches(Prev.fs, Prev.cats[k])

\* entry k of this run is entry k of the run before
SameEntry(k) ==
    /\ k \in Entries
    /\ [all_cats[k] EXCEPT !.needs_download = TRUE]
          = [Prev.cats[k] EXCEPT !.needs_download = TRUE]

\* the differ has run; the loop of perform_downloads has dealt with entry k
Differed == \E i \in 1..Len(phases) : phases[i] = "differ"
DealtWith(k) ==
    \/ pc \in {"download", "body"} /\ loop_n > k
    \/ pc = "body" /\ loop_n = k
    \/ pc = "delete"
    \/ pc = "done" /\ phases[Len(phases)] \in {"deletions", "message"}
    \/ pc = "done" /\ phases[Len(phases)] = "downloads" /\ loop_n > k

\* C35: when a run has stopped or failed during the download of an entry and
\* left a truncated or corrupted file at its dst_path, the differ of the next
\* run against the same server content marks the entry needs_download, and
\* the downloader of that run issues a GET for it when it comes to it.
C35_BrokenDownloadIsRepeated ==
    \A k \in PrevEntries :
        BrokenOff(k) =>
            /\ Differed => (SameEntry(k) /\ all_cats[k].needs_download)
            /\ (Differed /\ DealtWith(k)) => \E i \in 1..Len(fetched) : fetched[i] = k

\* the first run was stopped when one byte of two had been written; the next
\* run has downloaded the entry again and verified it
C35_Witness ==
    /\ earlier # <<>>
    /\ \E k \in PrevEntries :
          /\ BrokenOff(k)
          /\ Prev.pc = "body"
          /\ Len(At(Prev.fs, Prev.cats[k].dst_path).data) = 1
          /\ SameEntry(k)
          /\ all_cats[k].size = ToBe(2, 8)
          /\ k \in verified

\* the run before ended with the success exit code
PrevSucceeded == earlier # <<>> /\ Prev.pc = "done" /\ Prev.outcome = "success"

\* C36: a run that follows a run that ended with success, with the same index,
\* catalogs and server files and no other change to the local tree, and whose
\* differ reads every file without an I/O error, issues no GET for a file,
\* writes nothing and deletes nothing.
C36_SecondRunIsNoOp ==
    (PrevSucceeded /\ io_failed = 0) =>
        /\ \A i \in 1..Len(gets) : gets[i].kind # "file"
        /\ written = {} /\ deleted = {}
        /\ fs = Prev.fs

\* the entries of the run before had pairwise different dst_paths, and every
\* registered directory was written in one way
PrevPlain ==
    /\ \A i, j \in PrevEntries : i # j => Prev.cats[i].dst_path # Prev.cats[j].dst_path
    /\ server.index[1] # Prologue \o <<DetectData, CallInstall(T_cat), CallBasedir("DATA"),
                                        CallDeleteUnmatched(G_any)>>

\* the second run is a no-op after a first run of this kind
SecondRunIsNoOpIfPlain == PrevSucceeded => (PrevPlain => C36_SecondRunIsNoOp)

-----------------------------------------------------------------------------
(* cd and the registry (checked under Spec).                               *)

\* C37: cd changes the current base directory and nothing else of the finder,
\* the registry least of all; basedir(id) for a registered id sets the current
\* base directory to the path registered for id, whatever cd calls went before.
C37_CdLeavesRegistry ==
    [][/\ AtCall("cd") =>
             /\ uf'.dirs = uf.dirs
             /\ uf'.installs = uf.installs /\ uf'.deletes = uf.deletes
       /\ (AtCall("cd") /\ Went) => uf'.basedir = <<PathJoin(uf.basedir[1], script[1].arg)>>
       /\ (AtCall("basedir") /\ script[1].id \in DOMAIN uf.dirs) =>
             /\ Went
             /\ uf'.dirs = uf.dirs
             /\ uf'.basedir = <<uf.dirs[script[1].id]>>
       /\ (AtCall("basedir") /\ script[1].id = "HOME" /\ Went) => uf'.basedir = <<Home>>]_vars

\* basedir("HOME"), cd("k"), cd("a") and basedir("HOME") again have run: the
\* base directory is the home directory again
C37_Witness ==
    /\ pc = "script"
    /\ script = <<CallInstall(T_cat)>>
    /\ joined = {T_k, T_a}
    /\ uf.dirs = ("HOME" :> Home)
    /\ uf.basedir = <<Home>>

-----------------------------------------------------------------------------
(* The catalog without entries (checked under Spec).                       *)

\* a whole header around the compressed empty string: U = 0, the digest of
\* the empty string
EmptyCatalog == EncodeCatalog(<<>>)

\* C38: a catalog with a valid header and an empty decompressed body is
\* accepted for every install and yields no entry; the step that reads it adds
\* nothing to the CatalogEntry list, reports nothing, and leaves the run at
\* the next install.
C38_EmptyCatalogAccepted ==
    [][/\ \A i \in 1..Len(uf.installs) :
             /\ Len(EmptyCatalog) > HeaderLen
             /\ HasMagic(EmptyCatalog)
             /\ DecodeCatalog(EmptyCatalog, uf.installs[i].url, uf.installs[i].base_dir,
                              overflow_checks) = [tag |-> "ok", title |-> "", cats |-> <<>>]
       /\ (pc = "catalogs" /\ cat_bodies' = Append(cat_bodies, EmptyCatalog)) =>
             /\ all_cats' = all_cats
             /\ gui' = gui /\ outcome' = "running"
             /\ pc' = "catalogs" /\ loop_n' = loop_n + 1]_vars

\* the first catalog had no entry, the second was read after it and gave one
C38_Witness ==
    /\ pc = "catalogs" /\ outcome = "running"
    /\ Len(uf.installs) = 2 /\ loop_n = 3
    /\ Len(cat_bodies) = 2 /\ cat_bodies[1] = EmptyCatalog
    /\ Len(all_cats) = 1
    /\ gui = <<>>

=============================================================================
